---- MODULE Spec2Model ----
(***************************************************************************)
(* A model of the ext4 client in src/src: the mounted FileSystem (super    *)
(* block, in-memory block-group descriptors), the image behind it (bitmaps,*)
(* descriptor table, inode table, directory blocks) and the operations of  *)
(* Dir and FileSystem that read and mutate them.                           *)
(*                                                                         *)
(* Numbers.  TLC's integers are 32-bit signed, so a u32 of the program is  *)
(* kept as the two u16 halves the on-disk format itself uses (lo, hi); a   *)
(* 32-bit checksum is the record [lo, hi] of its low and high 16 bits.     *)
(* Byte strings are sequences of 16-bit words; names and paths are         *)
(* sequences of character codes.                                           *)
(***************************************************************************)
EXTENDS Integers, Sequences, FiniteSets, TLC

\* The number of mutating operations (create_dir / create_file that wrote
\* anything) explored from the mounted image.
MaxOps == 2

\* the number of calls of DirIter::next made on one iterator
MaxNext == 7

-----------------------------------------------------------------------------
(* Option<T> *)
None == [some |-> FALSE, val |-> 0]
Some(v) == [some |-> TRUE, val |-> v]

Last(s) == s[Len(s)]

\* A value computed once and read at several places is bound as the
\* parameter of a local operator: LET let_v(v) == body IN let_v(e) is
\* `let v = e;` followed by body.

-----------------------------------------------------------------------------
(* utils/crc.rs is not among the sources.  crc32c(seed, data) is modelled   *)
(* as a chained 32-bit digest: the result of one call seeds the next, every *)
(* step is a bijection of the running value, and two inputs of the same     *)
(* length that differ in one word give different digests.                   *)

CrcSeed == [lo |-> 65535, hi |-> 65535]

\* the 32-bit values, as halves
Digests == [lo : 0..65535, hi : 0..65535]

crc32c_step(c, w) ==
  [lo |-> (c.lo * 31421 + w + 1) % 65536,
   hi |-> (c.hi * 27183 + c.lo + w) % 65536]

\* the digest of a string is the digest of its second half seeded with the
\* digest of its first half
RECURSIVE crc32c(_, _)
crc32c(seed, data) ==
  IF data = <<>> THEN seed
  ELSE IF Len(data) = 1 THEN crc32c_step(seed, data[1])
  ELSE (LET let_first(first) ==
         IF first \in Digests
         THEN crc32c(first, SubSeq(data, Len(data) \div 2 + 1, Len(data)))
         ELSE first
        IN let_first(crc32c(seed, SubSeq(data, 1, Len(data) \div 2))))

\* u32::to_le_bytes, as two 16-bit words
to_le_bytes(x) == <<x % 65536, x \div 65536>>

-----------------------------------------------------------------------------
(* utils/mod.rs *)

combine_u32(lo, hi) == hi * 65536 + lo

Slash == 47

RECURSIVE TrimStart(_)
TrimStart(p) ==
  IF p # <<>> /\ Head(p) = Slash THEN TrimStart(Tail(p)) ELSE p

RECURSIVE TrimEnd(_)
TrimEnd(p) ==
  IF p # <<>> /\ Last(p) = Slash THEN TrimEnd(SubSeq(p, 1, Len(p) - 1)) ELSE p

trim_matches(p) == TrimEnd(TrimStart(p))

\* str::find('/'): the least index holding a slash, 0 when there is none
FindSlash(p) ==
  LET hits == {i \in 1..Len(p) : p[i] = Slash}
  IN IF hits = {} THEN 0 ELSE CHOOSE i \in hits : \A j \in hits : i <= j

\* split_path with a fault: the path is not split, the whole trimmed path is
\* taken as one name
split_path_Whole(path) ==
  [name |-> trim_matches(path), rest |-> None]

split_path(path) ==
  (LET let_trimmed_path(trimmed_path) ==
  (LET let_n(n) ==
    IF n = 0
    THEN [name |-> trimmed_path, rest |-> None]
    ELSE [name |-> SubSeq(trimmed_path, 1, n - 1),
          rest |-> Some(SubSeq(trimmed_path, n + 1, Len(trimmed_path)))]
   IN let_n(FindSlash(trimmed_path)))
   IN let_trimmed_path(trim_matches(path)))

-----------------------------------------------------------------------------
(* utils/bitmap.rs: data is the byte vector, bit i of byte b is             *)
(* (b >> i) & 1, bit numbers start at 0.                                    *)

BITS_PER_ITEM == 8

Pow2(i) == 2 ^ i

GetBitOfByte(byte, i) == (byte \div Pow2(i)) % 2

get_bit(data, bit) == GetBitOfByte(data[bit \div 8 + 1], bit % 8) = 1

set_bit(data, bit) ==
  [data EXCEPT ![bit \div 8 + 1] =
     IF GetBitOfByte(@, bit % 8) = 1 THEN @ ELSE @ + Pow2(bit % 8)]

RECURSIVE set_bits(_, _, _)
set_bits(data, start, count) ==
  IF count = 0 THEN data
  ELSE set_bits(set_bit(data, start), start + 1, count - 1)

\* find_unused_bit with a fault: the bits of the first byte that is not
\* 0xFF are not looked at
find_unused_bit_ByteOnly(data) ==
  LET bytes == {i \in 1..Len(data) : data[i] # 255}
  IN IF bytes = {} THEN None
     ELSE Some(8 * ((CHOOSE i \in bytes : \A j \in bytes : i <= j) - 1))

find_unused_bit(data) ==
  LET free == {p \in 0..(8 * Len(data) - 1) : ~get_bit(data, p)}
  IN IF free = {} THEN None
     ELSE Some(CHOOSE p \in free : \A q \in free : p <= q)

\* The loop of find_consecutive_unused_bits from bit position p on, with the
\* running length `consecutive`; a byte equal to 0xFF is skipped as a whole.
\* The result is [abort, found].  The index returned is computed in usize as
\* (byte_idx * 8 + bit_idx - count) + 1: for a run that starts at bit 0 the
\* subtraction goes below zero, which aborts the program in a build with
\* overflow checks and wraps, to the right sum, in one without.
RECURSIVE FindRunFrom(_, _, _, _, _)
FindRunFrom(data, count, p, consecutive, overflow_checks) ==
  IF p >= 8 * Len(data) THEN [abort |-> FALSE, found |-> None]
  ELSE IF data[p \div 8 + 1] = 255
       THEN FindRunFrom(data, count, (p \div 8 + 1) * 8, 0, overflow_checks)
       ELSE IF GetBitOfByte(data[p \div 8 + 1], p % 8) = 0
            THEN IF consecutive + 1 = count
                 THEN IF p < count /\ overflow_checks
                      THEN [abort |-> TRUE, found |-> None]
                      ELSE [abort |-> FALSE, found |-> Some(p - count + 1)]
                 ELSE FindRunFrom(data, count, p + 1, consecutive + 1, overflow_checks)
            ELSE FindRunFrom(data, count, p + 1, 0, overflow_checks)

find_consecutive_unused_bits(data, count, overflow_checks) ==
  FindRunFrom(data, count, 0, 0, overflow_checks)

\* the number of clear bits of a bitmap
ClearBits(data) == Cardinality({p \in 0..(8 * Len(data) - 1) : ~get_bit(data, p)})

-----------------------------------------------------------------------------
(* super_block.rs: the fields the operations read.                          *)

EXT4_MAGIC == 61267   \* 0xEF53

get_block_size(sb) == 1024 * Pow2(sb.log_block_size)
get_inode_size(sb) == sb.inode_size
get_desc_size(sb) == sb.desc_size
has_feature_incompat_filetype(sb) == sb.feature_incompat_filetype
has_feature_ro_compat_metadata_csum(sb) == sb.feature_ro_compat_metadata_csum

-----------------------------------------------------------------------------
(* descriptor.rs.  A descriptor is the record of its on-disk fields; the    *)
(* exclude-bitmap and reserved fields and the high halves of the three      *)
(* locations are zero throughout and left out.                              *)

get_free_inodes_count(bgd) == combine_u32(bgd.free_inodes_count_lo, bgd.free_inodes_count_hi)
get_free_blocks_count(bgd) == combine_u32(bgd.free_blocks_count_lo, bgd.free_blocks_count_hi)
get_used_dirs_count(bgd) == combine_u32(bgd.used_dirs_count_lo, bgd.used_dirs_count_hi)
\* itable_unused can reach 2^32 - 1 (see alloc_inode), so this getter hands
\* the u32 back as its two halves
get_itable_unused(bgd) == [lo |-> bgd.itable_unused_lo, hi |-> bgd.itable_unused_hi]

set_free_inodes_count(bgd, count) ==
  [bgd EXCEPT !.free_inodes_count_lo = count % 65536, !.free_inodes_count_hi = count \div 65536]
set_free_blocks_count(bgd, count) ==
  [bgd EXCEPT !.free_blocks_count_lo = count % 65536, !.free_blocks_count_hi = count \div 65536]
set_used_dirs_count(bgd, count) ==
  [bgd EXCEPT !.used_dirs_count_lo = count % 65536, !.used_dirs_count_hi = count \div 65536]
set_itable_unused(bgd, count) ==
  [bgd EXCEPT !.itable_unused_lo = count.lo, !.itable_unused_hi = count.hi]

\* x - 1 on a u32 given as halves, wrapping at zero
WrappingSub1(x) ==
  IF x.lo > 0 THEN [lo |-> x.lo - 1, hi |-> x.hi]
  ELSE IF x.hi > 0 THEN [lo |-> 65535, hi |-> x.hi - 1]
  ELSE [lo |-> 65535, hi |-> 65535]

IsZero32(x) == x.lo = 0 /\ x.hi = 0

BitmapCsum(sb, bitmap, len) ==
  crc32c(crc32c(CrcSeed, sb.uuid), SubSeq(bitmap, 1, len))

set_inode_bitmap_csum(bgd, sb, bitmap) ==
  IF ~has_feature_ro_compat_metadata_csum(sb) THEN bgd
  ELSE (LET let_csum(csum) ==
         [bgd EXCEPT !.inode_bitmap_csum_lo = csum.lo, !.inode_bitmap_csum_hi = csum.hi]
        IN let_csum(BitmapCsum(sb, bitmap, (sb.inodes_per_group + 7) \div 8)))

set_block_bitmap_csum(bgd, sb, bitmap) ==
  IF ~has_feature_ro_compat_metadata_csum(sb) THEN bgd
  ELSE (LET let_csum(csum) ==
         [bgd EXCEPT !.block_bitmap_csum_lo = csum.lo, !.block_bitmap_csum_hi = csum.hi]
        IN let_csum(BitmapCsum(sb, bitmap, sb.blocks_per_group \div 8)))

\* the descriptor's bytes in field order
BgdBytes(bgd) ==
  << bgd.block_bitmap_lo, bgd.inode_bitmap_lo, bgd.inode_table_lo,
     bgd.free_blocks_count_lo, bgd.free_inodes_count_lo, bgd.used_dirs_count_lo,
     bgd.flags, bgd.block_bitmap_csum_lo, bgd.inode_bitmap_csum_lo,
     bgd.itable_unused_lo, bgd.checksum,
     bgd.free_blocks_count_hi, bgd.free_inodes_count_hi, bgd.used_dirs_count_hi,
     bgd.itable_unused_hi, bgd.block_bitmap_csum_hi, bgd.inode_bitmap_csum_hi >>

\* BlockGroupDescriptor::compute_checksum; bgd_id counts from 0
bgd_compute_checksum(bgd, bgd_id, sb) ==
  LET csum0 == crc32c(CrcSeed, sb.uuid)
      csum1 == crc32c(csum0, to_le_bytes(bgd_id))
      csum2 == crc32c(csum1, BgdBytes([bgd EXCEPT !.checksum = 0]))
  IN csum2.lo

\* set_checksum with a fault: the stored checksum is left as it was
set_checksum_Skipped(bgd, bgd_id, sb) == bgd

set_checksum(bgd, bgd_id, sb) ==
  [bgd EXCEPT !.checksum = bgd_compute_checksum(bgd, bgd_id, sb)]

-----------------------------------------------------------------------------
(* extent.rs *)

EXTENT_MAGIC == 62218   \* 0xF30A

Extent_new(block, len, start) ==
  [block |-> block, len |-> len, start_hi |-> 0, start_lo |-> start]

\* start is below 2^16 in every image of the model, so start_hi is 0
get_block_loc(extent) == extent.start_lo

ZeroExtent == [block |-> 0, len |-> 0, start_hi |-> 0, start_lo |-> 0]

ExtentBytes(e) == to_le_bytes(e.block) \o <<e.len, e.start_hi>> \o to_le_bytes(e.start_lo)

-----------------------------------------------------------------------------
(* inode.rs.  The 160 bytes of struct Inode in three parts: head is bytes   *)
(* 0..31, body bytes 32..127, extra bytes 128..159.  block is the 60-byte   *)
(* area read as an extent header and four extent slots.                     *)

ROOT_INO == 2
INODE_BLOCK_SIZE == 512
FILEPERM_MASK == 4095    \* 0x0FFF
FILETYPE_MASK == 61440   \* 0xF000
InodeFileType_DIR == 16384   \* 0x4000
InodeFileType_REG == 32768   \* 0x8000
EXTENTS_FL == 524288     \* 0x80000
\* core::mem::size_of::<Inode>()
SizeOfInode == 160

ZeroBlockArea ==
  [magic |-> 0, entries |-> 0, max |-> 0, depth |-> 0, generation |-> 0,
   slots |-> <<ZeroExtent, ZeroExtent, ZeroExtent, ZeroExtent>>]

ZeroHead ==
  [mode |-> 0, uid |-> 0, size_lo |-> 0, atime |-> 0, ctime |-> 0, mtime |-> 0,
   dtime |-> 0, gid |-> 0, links_count |-> 0, blocks_lo |-> 0]

ZeroBody ==
  [flags |-> 0, osd1 |-> 0, block |-> ZeroBlockArea, generation |-> 0,
   file_acl_lo |-> 0, size_hi |-> 0, obso_faddr |-> 0, checksum_lo |-> 0]

ZeroExtra ==
  [extra_isize |-> 0, checksum_hi |-> 0, ctime_extra |-> 0, mtime_extra |-> 0,
   atime_extra |-> 0, crtime |-> 0, crtime_extra |-> 0, version_hi |-> 0, projid |-> 0]

\* Inode::default()
Inode_default == [head |-> ZeroHead, body |-> ZeroBody, extra |-> ZeroExtra]

\* The same 32 bytes read as the first 32 bytes of an inode (head) and as
\* bytes 128..159 of the inode before it (extra).
ExtraOfBytes(h) ==
  [extra_isize |-> h.mode, checksum_hi |-> h.uid, ctime_extra |-> h.size_lo,
   mtime_extra |-> h.atime, atime_extra |-> h.ctime, crtime |-> h.mtime,
   crtime_extra |-> h.dtime, version_hi |-> combine_u32(h.gid, h.links_count),
   projid |-> h.blocks_lo]

HeadOfBytes(e) ==
  [mode |-> e.extra_isize, uid |-> e.checksum_hi, size_lo |-> e.ctime_extra,
   atime |-> e.mtime_extra, ctime |-> e.atime_extra, mtime |-> e.crtime,
   dtime |-> e.crtime_extra, gid |-> e.version_hi % 65536,
   links_count |-> e.version_hi \div 65536, blocks_lo |-> e.projid]

get_size(inode) == inode.head.size_lo   \* size_hi is 0 in every image of the model
set_size(inode, size) == [inode EXCEPT !.head.size_lo = size, !.body.size_hi = 0]

get_file_type(inode) == (inode.head.mode \div 4096) * 4096
get_file_perm(inode) == inode.head.mode % 4096
is_dir(inode) == get_file_type(inode) = InodeFileType_DIR
is_file(inode) == get_file_type(inode) = InodeFileType_REG
use_extents(inode) == (inode.body.flags \div EXTENTS_FL) % 2 = 1

\* Vec::sort_by on the logical block, stable
RECURSIVE InsertSorted(_, _)
InsertSorted(sorted, e) ==
  IF sorted = <<>> THEN <<e>>
  ELSE IF Last(sorted).block <= e.block THEN Append(sorted, e)
       ELSE Append(InsertSorted(SubSeq(sorted, 1, Len(sorted) - 1), e), Last(sorted))

RECURSIVE SortExtents(_)
SortExtents(s) ==
  IF s = <<>> THEN <<>>
  ELSE InsertSorted(SortExtents(SubSeq(s, 1, Len(s) - 1)), Last(s))

\* Inode::get_extents: ok is FALSE where the code aborts (no EXTENTS_FL, a
\* depth above 0, more entries than the inline area holds)
get_extents(inode) ==
  LET eh == inode.body.block
  IN IF ~use_extents(inode) \/ eh.depth # 0 \/ eh.entries > 4
     THEN [ok |-> FALSE, extents |-> <<>>]
     ELSE [ok |-> TRUE, extents |-> SortExtents(SubSeq(eh.slots, 1, eh.entries))]

init_extent_tree(inode, extents) ==
  [inode EXCEPT !.body.block =
     [@ EXCEPT !.magic = EXTENT_MAGIC, !.entries = 1, !.max = 4, !.depth = 0,
               !.generation = 0, !.slots = [@ EXCEPT ![1] = extents[1]]]]

get_checksum(inode) == [lo |-> inode.body.checksum_lo, hi |-> inode.extra.checksum_hi]

HeadBytes(h) ==
  <<h.mode, h.uid>> \o to_le_bytes(h.size_lo) \o to_le_bytes(h.atime)
  \o to_le_bytes(h.ctime) \o to_le_bytes(h.mtime) \o to_le_bytes(h.dtime)
  \o <<h.gid, h.links_count>> \o to_le_bytes(h.blocks_lo)

BlockAreaBytes(b) ==
  <<b.magic, b.entries, b.max, b.depth>> \o to_le_bytes(b.generation)
  \o ExtentBytes(b.slots[1]) \o ExtentBytes(b.slots[2])
  \o ExtentBytes(b.slots[3]) \o ExtentBytes(b.slots[4])

BodyBytes(b) ==
  to_le_bytes(b.flags) \o to_le_bytes(b.osd1) \o BlockAreaBytes(b.block)
  \o to_le_bytes(b.generation) \o to_le_bytes(b.file_acl_lo) \o to_le_bytes(b.size_hi)
  \o to_le_bytes(b.obso_faddr) \o <<b.checksum_lo>>

ExtraBytes(e) ==
  <<e.extra_isize, e.checksum_hi>> \o to_le_bytes(e.ctime_extra)
  \o to_le_bytes(e.mtime_extra) \o to_le_bytes(e.atime_extra) \o to_le_bytes(e.crtime)
  \o to_le_bytes(e.crtime_extra) \o to_le_bytes(e.version_hi) \o to_le_bytes(e.projid)

\* The inode_size bytes compute_checksum hashes: the struct's bytes cut at
\* inode_size, or followed by zeros up to inode_size (one word stands for
\* the zero fill).
InodeData(inode, inode_size) ==
  IF inode_size < SizeOfInode
  THEN HeadBytes(inode.head) \o BodyBytes(inode.body)
  ELSE HeadBytes(inode.head) \o BodyBytes(inode.body) \o ExtraBytes(inode.extra) \o <<0>>

inode_compute_checksum(inode, ino, inode_size, uuid) ==
  LET zeroed == [inode EXCEPT !.body.checksum_lo = 0, !.extra.checksum_hi = 0]
      csum0 == crc32c(CrcSeed, uuid)
      csum1 == crc32c(csum0, to_le_bytes(ino))
      csum2 == crc32c(csum1, to_le_bytes(inode.body.generation))
  IN crc32c(csum2, InodeData(zeroed, inode_size))

compute_and_set_checksum(inode, ino, inode_size, uuid) ==
  (LET let_csum(csum) ==
    [inode EXCEPT !.body.checksum_lo = csum.lo,
                  !.extra.checksum_hi = IF inode_size > 128 THEN csum.hi ELSE @]
   IN let_csum(inode_compute_checksum(inode, ino, inode_size, uuid)))

-----------------------------------------------------------------------------
(* dir_entry.rs.  One record shape for the three variants of DirEntryData;  *)
(* a field a variant does not have is 0 (<<>> for the name).                *)

DirEntryFileType_UNKNOWN == 0
DirEntryFileType_REG_FILE == 1
DirEntryFileType_DIR == 2
TAIL_REC_LEN == 12
TAIL_RESERVED_FT == 222   \* 0xDE

Dot == 46
DotName == <<Dot>>
DotDotName == <<Dot, Dot>>

DirEntry2(inode, rec_len, file_type, name) ==
  [kind |-> "DirEntry2", inode |-> inode, rec_len |-> rec_len, name_len |-> Len(name),
   file_type |-> file_type, name |-> name, checksum |-> [lo |-> 0, hi |-> 0]]

DirEntry1(inode, rec_len, name) ==
  [kind |-> "DirEntry1", inode |-> inode, rec_len |-> rec_len, name_len |-> Len(name),
   file_type |-> 0, name |-> name, checksum |-> [lo |-> 0, hi |-> 0]]

DirEntryTail(checksum) ==
  [kind |-> "DirEntryTail", inode |-> 0, rec_len |-> TAIL_REC_LEN, name_len |-> 0,
   file_type |-> TAIL_RESERVED_FT, name |-> <<>>, checksum |-> checksum]

\* DirEntryData::new
DirEntryData_new(ino, name, file_type, feature_incompat_filetype) ==
  LET rec_len == ((8 + Len(name) + 3) \div 4) * 4
  IN IF feature_incompat_filetype
     THEN DirEntry2(ino, rec_len,
                    IF file_type.some THEN file_type.val ELSE DirEntryFileType_UNKNOWN, name)
     ELSE DirEntry1(ino, rec_len, name)

get_rec_len(e) == e.rec_len
set_rec_len(e, rec_len) == [e EXCEPT !.rec_len = rec_len]
get_name_str(e) == IF e.kind = "DirEntryTail" THEN <<>> ELSE SubSeq(e.name, 1, e.name_len)

\* get_real_rec_len with a fault: the length is not rounded up to 4
get_real_rec_len_Unrounded(e) ==
  IF e.kind = "DirEntryTail" THEN e.rec_len ELSE e.name_len + 8

get_real_rec_len(e) ==
  IF e.kind = "DirEntryTail" THEN e.rec_len ELSE ((e.name_len + 8 + 3) \div 4) * 4

\* DirEntryData::serialize: header, name, then zeros up to rec_len.  The
\* last word stands for the bytes after the name: 0 when they are all zero.
EntryBytesWithFill(e, fill) ==
  IF e.kind = "DirEntry2"
  THEN to_le_bytes(e.inode) \o <<e.rec_len, e.name_len, e.file_type>>
       \o SubSeq(e.name, 1, e.name_len) \o <<fill>>
  ELSE to_le_bytes(e.inode) \o <<e.rec_len, e.name_len>>
       \o SubSeq(e.name, 1, e.name_len) \o <<fill>>

EntryBytes(e) == EntryBytesWithFill(e, 0)

RECURSIVE EntriesBytes(_)
EntriesBytes(entries) ==
  IF entries = <<>> THEN <<>>
  ELSE EntryBytes(Head(entries)) \o EntriesBytes(Tail(entries))

\* DirEntryData::compute_dirblock_checksum is called by dir.rs and by the
\* tests but its body is not among the sources: CRC32C(UUID) seeded with
\* 0xFFFFFFFF, chained with LE(dir_ino), LE(generation), then the entries as
\* they are serialized.
compute_dirblock_checksum(entries, block_size, uuid, ino, generation) ==
  LET csum0 == crc32c(CrcSeed, uuid)
      csum1 == crc32c(csum0, to_le_bytes(ino))
      csum2 == crc32c(csum1, to_le_bytes(generation))
  IN crc32c(csum2, EntriesBytes(entries))

\* core::mem::size_of::<DirEntry2>(): 4 + 2 + 1 + 1 + 255, padded to 264
SizeOfDirEntry2 == 264

\* new_dir_entries takes the checksum over rec_len bytes read from the
\* address of each DirEntry2.  For ".." rec_len is block_size - 24, far more
\* than the struct holds: the bytes past it are whatever lies behind it in
\* memory.  oob stands for them: 0 when they all happen to be zero.
RawStructBytes(e, oob) ==
  EntryBytesWithFill(e, IF e.rec_len >= SizeOfDirEntry2 THEN oob ELSE 0)

\* DirEntryData::new_dir_entries (FILETYPE variant; the other one is
\* unimplemented!() and handled by the caller's abort)
new_dir_entries(ino, parent_ino, block_size, uuid, ino_gen, oob) ==
  LET self_entry == DirEntry2(ino, 12, DirEntryFileType_DIR, DotName)
      parent_entry == DirEntry2(parent_ino, ((block_size % 65536) - 12 - 12) % 65536,
                                DirEntryFileType_DIR, DotDotName)
      block == RawStructBytes(self_entry, oob) \o RawStructBytes(parent_entry, oob)
      csum0 == crc32c(CrcSeed, uuid)
      csum1 == crc32c(csum0, to_le_bytes(ino))
      csum2 == crc32c(csum1, to_le_bytes(ino_gen))
      csum3 == crc32c(csum2, block)
  IN <<self_entry, parent_entry, DirEntryTail(csum3)>>

-----------------------------------------------------------------------------
(* The image.  disk is a record:                                            *)
(*   bgd          the descriptor table, one descriptor per group            *)
(*   inode_bitmap, block_bitmap   per group, the bitmap's bytes             *)
(*   inode_table  inode number -> the inode_size bytes of its slot; the     *)
(*                tables of the groups lie back to back, and one more slot  *)
(*                stands for the bytes behind the last table                *)
(*   blocks       block number -> the directory entries written in it, as   *)
(*                a function from the byte offset of an entry to the entry  *)

EmptyBlock == <<>>

\* The bytes of a block no directory entry was written in: file data, or
\* whatever the block held before it was allocated.  No operation of the
\* crate writes file data, so they are the bytes of the image: never zero,
\* and different at the offsets the reads of the model touch.
DataByte(b, o) == ((o + 7 * b) % 251) + 1

\* the byte of the image at position pos of block b
ByteAt(blocks, b, o) == IF blocks[b] = EmptyBlock THEN DataByte(b, o) ELSE 0

\* Extent::read_bytes: seek to start * block_size + offset, read_exact(buf).
\* ok is FALSE where read_exact runs past the end of the image.
read_bytes(blocks, extent, block_size, offset, len) ==
  LET pos == get_block_loc(extent) * block_size + offset
  IN IF (pos + len - 1) \div block_size \notin DOMAIN blocks
     THEN [ok |-> FALSE, bytes |-> <<>>]
     ELSE [ok |-> TRUE,
           bytes |-> [i \in 1..len |->
                        ByteAt(blocks, (pos + i - 1) \div block_size,
                               (pos + i - 1) % block_size)]]

\* Extent::write_entrydata + DirEntryData::serialize: rec_len bytes (12 for a
\* tail) are written at offset, replacing whatever started inside them.
write_entrydata(blocks, extent, offset, data) ==
  LET b == get_block_loc(extent)
      old == blocks[b]
      keep == {o \in DOMAIN old : o < offset \/ o >= offset + data.rec_len}
  IN [blocks EXCEPT ![b] = [o \in keep \cup {offset} |-> IF o = offset THEN data ELSE old[o]]]

\* Extent::read_entrydata + DirEntryData::deserialize: the entry at byte
\* start * block_size + offset of the image.  ok is FALSE where the asserts
\* of the two abort (offset past the extent, fewer than 6 bytes left,
\* rec_len beyond the extent).  Bytes no entry was written at read as zeros.
read_entrydata(blocks, extent, block_size, feature_incompat_filetype, offset) ==
  LET size == extent.len * block_size
      b == blocks[get_block_loc(extent) + offset \div block_size]
      at == offset % block_size
      raw == IF at \in DOMAIN b THEN b[at]
             ELSE IF feature_incompat_filetype THEN DirEntry2(0, 0, 0, <<>>)
                  ELSE DirEntry1(0, 0, <<>>)
  IN IF size < offset \/ size - offset < 6 \/ size - offset < raw.rec_len
     THEN [ok |-> FALSE, data |-> raw]
     ELSE IF raw.inode = 0 /\ raw.rec_len = TAIL_REC_LEN /\ raw.kind # "DirEntryTail"
          THEN [ok |-> FALSE, data |-> raw]   \* read as a tail, 0xDE is not there
     ELSE [ok |-> TRUE, data |-> raw]

-----------------------------------------------------------------------------
(* dir.rs: DirIter.  An iterator state is [extent_idx, extent_offset,       *)
(* tail_entry]; extent_idx counts from 0 as in the code.                    *)

DirIter_new == [extent_idx |-> 0, extent_offset |-> 0, tail_entry |-> None]

\* DirIter::next: [st, item, abort].  item is None at the end; abort is TRUE
\* where an unwrap or assert of next fails.
DirIter_next(sb, disk, dir_inode, st) ==
  (LET let_ex(ex) ==
    IF ~ex.ok THEN [st |-> st, item |-> None, abort |-> TRUE]
    ELSE IF st.extent_idx >= Len(ex.extents) THEN [st |-> st, item |-> None, abort |-> FALSE]
    ELSE
      (LET let_extent(extent) ==
      (LET let_r(r) ==
        IF ~r.ok THEN [st |-> st, item |-> None, abort |-> TRUE]
        ELSE IF r.data.kind = "DirEntryTail"
             THEN [st |-> [st EXCEPT !.tail_entry = Some(r.data)], item |-> None, abort |-> FALSE]
             ELSE LET off == st.extent_offset + r.data.rec_len
                  IN [st |-> IF off >= extent.len * get_block_size(sb)
                             THEN [st EXCEPT !.extent_offset = 0, !.extent_idx = @ + 1]
                             ELSE [st EXCEPT !.extent_offset = off],
                      item |-> Some(r.data), abort |-> FALSE]
       IN let_r(read_entrydata(disk.blocks, extent, get_block_size(sb),
              has_feature_incompat_filetype(sb), st.extent_offset)))
       IN let_extent(ex.extents[st.extent_idx + 1]))
   IN let_ex(get_extents(dir_inode)))

\* `for entry in &mut iter`: every item up to the first None.  An entry
\* with rec_len 0 is yielded again and again; the loop then never ends,
\* which counts as an abort here.
RECURSIVE IterAll(_, _, _, _, _)
IterAll(sb, disk, dir_inode, st, acc) ==
  (LET let_n(n) ==
    IF n.abort THEN [st |-> n.st, entries |-> acc, abort |-> TRUE]
    ELSE IF ~n.item.some THEN [st |-> n.st, entries |-> acc, abort |-> FALSE]
    ELSE IF n.item.val.rec_len = 0 THEN [st |-> n.st, entries |-> acc, abort |-> TRUE]
    ELSE IterAll(sb, disk, dir_inode, n.st, Append(acc, n.item.val))
   IN let_n(DirIter_next(sb, disk, dir_inode, st)))

Iterate(sb, disk, dir_inode) == IterAll(sb, disk, dir_inode, DirIter_new, <<>>)

\* n calls of DirIter::next from iterator state st on, one record per call:
\* the state the call started from, what it returned, the state it left.
\* Nothing is called after an abort.
RECURSIVE NextCalls(_, _, _, _, _)
NextCalls(sb, disk, dir_inode, st, n) ==
  IF n = 0 THEN <<>>
  ELSE (LET let_r(r) ==
         <<[from |-> st, item |-> r.item, st |-> r.st, abort |-> r.abort]>>
         \o (IF r.abort THEN <<>> ELSE NextCalls(sb, disk, dir_inode, r.st, n - 1))
        IN let_r(DirIter_next(sb, disk, dir_inode, st)))

-----------------------------------------------------------------------------
(* fs.rs.  The operations below thread a context ctx = [disk, bgds, writes]:*)
(* the image, the in-memory descriptor vector of the FileSystem, and the    *)
(* log of the writes issued to the stream so far by the running operation.  *)
(* An operation that returns Err(e) gives res = the error's name; one that  *)
(* aborts the program (a failed assert or unwrap, an arithmetic overflow    *)
(* with overflow checks on) gives res = "Panic" and the context at the      *)
(* abort.                                                                   *)

W(kind, at) == [kind |-> kind, at |-> at]

Logged(ctx, kind, at) == Append(ctx.writes, W(kind, at))

NumInodes(sb) == sb.inodes_per_group * sb.group_count

\* FileSystem::new: SuperBlock::deserialize copies the bytes at 1024 into the
\* struct, then one descriptor per group is read.  No field is looked at but
\* the group count.
FileSystem_new(image_sb, disk) ==
  [res |-> "Ok", super_block |-> image_sb,
   block_group_descriptors |-> SubSeq(disk.bgd, 1, image_sb.group_count)]

\* FileSystem::get_inode_pos + Inode::deserialize: size_of::<Inode>() bytes
\* from the start of the slot.  With inode_size below that the last bytes
\* come from the head of the next slot.
get_inode(sb, disk, ino) ==
  LET slot == disk.inode_table[ino]
  IN [head |-> slot.head, body |-> slot.body,
      extra |-> IF get_inode_size(sb) < SizeOfInode
                THEN ExtraOfBytes(disk.inode_table[ino + 1].head)
                ELSE slot.extra]

\* seek(get_inode_pos(ino)) + Inode::serialize: size_of::<Inode>() bytes
write_inode(sb, disk, ino, inode) ==
  IF get_inode_size(sb) < SizeOfInode
  THEN [disk EXCEPT !.inode_table =
          [@ EXCEPT ![ino] = [@ EXCEPT !.head = inode.head, !.body = inode.body],
                    ![ino + 1] = [@ EXCEPT !.head = HeadOfBytes(inode.extra)]]]
  ELSE [disk EXCEPT !.inode_table = [@ EXCEPT ![ino] = inode]]

\* Bitmap::deserialize(disk, size) and Bitmap::serialize at the same place
ReadBitmap(region, size) == SubSeq(region, 1, size)
WriteBitmap(region, data) == data \o SubSeq(region, Len(data) + 1, Len(region))

MinOf(S) == CHOOSE x \in S : \A y \in S : x <= y

\* FileSystem::alloc_inode.  val is the new inode number.  overflow_checks
\* tells how the build treats `get_itable_unused() - 1` at zero: abort
\* (checks on) or wrap to 2^32 - 1 (checks off).
alloc_inode(sb, ctx, is_dir_arg, overflow_checks) ==
  LET cands == {g \in 1..Len(ctx.bgds) : get_free_inodes_count(ctx.bgds[g]) > 0}
      size == sb.inodes_per_group \div BITS_PER_ITEM
  IN IF cands = {} THEN [res |-> "NoSpace", val |-> 0, ctx |-> ctx]
     ELSE
       (LET let_g(g) ==
       (LET let_found(found) ==
         IF ~found.some THEN [res |-> "Panic", val |-> 0, ctx |-> ctx]
         ELSE
           (LET let_inode_bitmap(inode_bitmap) ==
           (LET let_disk1(disk1) ==
           (LET let_bgd2(bgd2) ==
           (LET let_bgd3(bgd3) ==
             IF IsZero32(get_itable_unused(bgd3)) /\ overflow_checks
             THEN [res |-> "Panic", val |-> 0,
                   ctx |-> [disk |-> disk1, bgds |-> [ctx.bgds EXCEPT ![g] = bgd3],
                            writes |-> Logged(ctx, "inode_bitmap", g - 1)]]
             ELSE
               (LET let_bgd5(bgd5) ==
                 [res |-> "Ok", val |-> (g - 1) * sb.inodes_per_group + found.val + 1,
                  ctx |-> [disk |-> [disk1 EXCEPT !.bgd[g] = bgd5],
                           bgds |-> [ctx.bgds EXCEPT ![g] = bgd5],
                           writes |-> Logged(ctx, "inode_bitmap", g - 1)
                                      \o <<W("bgd", g - 1)>>]]
                IN let_bgd5(set_checksum(set_itable_unused(bgd3, WrappingSub1(get_itable_unused(bgd3))),
                       g - 1, sb)))
            IN let_bgd3(IF is_dir_arg THEN set_used_dirs_count(bgd2, get_used_dirs_count(bgd2) + 1)
                   ELSE bgd2))
            IN let_bgd2(set_free_inodes_count(set_inode_bitmap_csum(ctx.bgds[g], sb, inode_bitmap),
                   get_free_inodes_count(ctx.bgds[g]) - 1)))
            IN let_disk1([ctx.disk EXCEPT !.inode_bitmap[g] = WriteBitmap(@, inode_bitmap)]))
            IN let_inode_bitmap(set_bit(ReadBitmap(ctx.disk.inode_bitmap[g], size), found.val)))
        IN let_found(find_unused_bit(ReadBitmap(ctx.disk.inode_bitmap[g], size))))
        IN let_g(MinOf(cands)))

\* FileSystem::alloc_contiguous_blocks(count, bgd_id).  val is the first
\* block of the run.  overflow_checks is the build, as in alloc_inode.
alloc_contiguous_blocks(sb, ctx, count, bgd_id, overflow_checks) ==
  LET g == bgd_id + 1
      size == sb.blocks_per_group \div BITS_PER_ITEM
  IN (LET let_bgd(bgd) ==
     (LET let_block_bitmap0(block_bitmap0) ==
     (LET let_run(run) ==
       IF get_free_blocks_count(bgd) < count THEN [res |-> "NoSpace", val |-> 0, ctx |-> ctx]
       ELSE IF run.abort THEN [res |-> "Panic", val |-> 0, ctx |-> ctx]
       ELSE IF ~run.found.some THEN [res |-> "NoSpace", val |-> 0, ctx |-> ctx]
       ELSE
         (LET let_block_bitmap(block_bitmap) ==
         (LET let_bgd3(bgd3) ==
           [res |-> "Ok", val |-> bgd_id * sb.blocks_per_group + run.found.val,
            ctx |-> [disk |-> [ctx.disk EXCEPT !.block_bitmap[g] = WriteBitmap(@, block_bitmap),
                                               !.bgd[g] = bgd3],
                     bgds |-> [ctx.bgds EXCEPT ![g] = bgd3],
                     writes |-> Logged(ctx, "block_bitmap", bgd_id)
                                \o <<W("bgd", bgd_id)>>]]
          IN let_bgd3(set_checksum(
                 set_free_blocks_count(set_block_bitmap_csum(bgd, sb, block_bitmap),
                 get_free_blocks_count(bgd) - count),
                 bgd_id, sb)))
          IN let_block_bitmap(set_bits(block_bitmap0, run.found.val, count)))
      IN let_run(find_consecutive_unused_bits(block_bitmap0, count, overflow_checks)))
      IN let_block_bitmap0(ReadBitmap(ctx.disk.block_bitmap[g], size)))
      IN let_bgd(ctx.bgds[g]))

-----------------------------------------------------------------------------
(* dir.rs: Dir.  A handle is [ino, inode]: the inode number and the copy of *)
(* the inode taken when the handle was made.                                *)

Dir_new(ino, inode) == [ino |-> ino, inode |-> inode]

NoDir == Dir_new(0, Inode_default)

\* FileSystem::root_dir
root_dir(sb, disk) == Dir_new(ROOT_INO, get_inode(sb, disk, ROOT_INO))

\* Dir::find_entry: the scan from iterator state st on
RECURSIVE FindFrom(_, _, _, _, _)
FindFrom(sb, disk, self, name, st) ==
  (LET let_n(n) ==
    IF n.abort THEN [res |-> "Panic", data |-> DirEntryTail(CrcSeed)]
    ELSE IF ~n.item.some THEN [res |-> "NotFound", data |-> DirEntryTail(CrcSeed)]
    ELSE IF get_name_str(n.item.val) = name THEN [res |-> "Ok", data |-> n.item.val]
    ELSE IF n.item.val.rec_len = 0 THEN [res |-> "Panic", data |-> DirEntryTail(CrcSeed)]
    ELSE FindFrom(sb, disk, self, name, n.st)
   IN let_n(DirIter_next(sb, disk, self.inode, st)))

\* find_entry with a fault: the scan goes on to the last entry of that name
find_entry_LastMatch(sb, disk, self, name) ==
  LET it == Iterate(sb, disk, self.inode)
      hits == {i \in 1..Len(it.entries) : get_name_str(it.entries[i]) = name}
  IN IF it.abort THEN [res |-> "Panic", data |-> DirEntryTail(CrcSeed)]
     ELSE IF hits = {} THEN [res |-> "NotFound", data |-> DirEntryTail(CrcSeed)]
     ELSE [res |-> "Ok", data |-> it.entries[CHOOSE i \in hits : \A j \in hits : j <= i]]

find_entry(sb, disk, self, name) == FindFrom(sb, disk, self, name, DirIter_new)

\* is_exist with a fault: the name is never found
is_exist_Never(sb, disk, self, name) == "NotFound"

\* Dir::is_exist
is_exist(sb, disk, self, name) == find_entry(sb, disk, self, name).res

\* DirEntry::to_dir / to_file: get_inode(ino).unwrap() and the assert on the
\* file type
to_handle(sb, disk, data, want_dir) ==
  LET ino == data.inode
  IN IF ino < 1 \/ ino > NumInodes(sb) THEN [res |-> "Panic", dir |-> NoDir]
     ELSE (LET let_inode(inode) ==
            IF (want_dir /\ is_dir(inode)) \/ (~want_dir /\ is_file(inode))
            THEN [res |-> "Ok", dir |-> Dir_new(ino, inode)]
            ELSE [res |-> "Panic", dir |-> NoDir]
           IN let_inode(get_inode(sb, disk, ino)))

to_dir(sb, disk, data) == to_handle(sb, disk, data, TRUE)
to_file(sb, disk, data) == to_handle(sb, disk, data, FALSE)

\* the slack check of add_dir_entry_and_sync (an assert!)
HasRoom(last_entry, new_entry) ==
  get_real_rec_len(last_entry) + get_rec_len(new_entry) <= get_rec_len(last_entry)

\* NewEntryRecLen with a fault: the real length of the last entry is not
\* taken off
NewEntryRecLen_Whole(original_rec_len, last_entry_real_len) == original_rec_len

\* the rec_len the new entry is written with
NewEntryRecLen(original_rec_len, last_entry_real_len) == original_rec_len - last_entry_real_len

\* where the tail is rewritten, from the offset of the new entry
TailOffset(extent_offset, new_entry) == extent_offset + get_rec_len(new_entry)

\* ChecksummedEntries with a fault: the checksum is taken before the push
ChecksummedEntries_Stale(entries, new_entry) == entries

\* the entry sequence the new tail checksum is taken over
ChecksummedEntries(entries, new_entry) == Append(entries, new_entry)

\* UpdateLinkCount with a fault: the parent inode is not written back
UpdateLinkCount_Skipped(sb, ctx, self, linked, heap_abort) ==
  [res |-> "Ok", ctx |-> ctx, dir |-> self]

\* add_dir_entry_and_sync, the link count update that ends it: the parent
\* inode with links_count + 1 and its checksum, written back.
\* Inode::compute_checksum copies size_of::<Inode>() bytes into a buffer of
\* inode_size bytes; with inode_size below that the copy runs past the
\* buffer, and the call either goes on with the heap overwritten or the
\* program aborts (heap_abort).
UpdateLinkCount(sb, ctx, self, linked, heap_abort) ==
  IF ~linked THEN [res |-> "Ok", ctx |-> ctx, dir |-> self]
  ELSE IF heap_abort /\ get_inode_size(sb) < SizeOfInode
  THEN [res |-> "Panic", ctx |-> ctx, dir |-> self]
  ELSE (LET let_inode2(inode2) ==
         [res |-> "Ok",
          ctx |-> [disk |-> write_inode(sb, ctx.disk, self.ino, inode2),
                   bgds |-> ctx.bgds,
                   writes |-> Logged(ctx, "inode", self.ino)],
          dir |-> Dir_new(self.ino, inode2)]
        IN let_inode2(compute_and_set_checksum(
               [self.inode EXCEPT !.head.links_count = @ + 1],
               self.ino, get_inode_size(sb), sb.uuid)))

\* add_dir_entry_and_sync, its three writes to the block: the last entry
\* shrunk to its real length, the new entry in the slack, the tail with the
\* checksum over the entries.
WriteEntries(sb, ctx, self, extent, extent_offset, entries, new_entry0) ==
  LET last_entry == Last(entries)
      last_entry_real_len == get_real_rec_len(last_entry)
      shrunk == set_rec_len(last_entry, last_entry_real_len)
      new_entry == set_rec_len(new_entry0,
                               NewEntryRecLen(get_rec_len(last_entry), last_entry_real_len))
      extent_offset2 == extent_offset + last_entry_real_len
      tail_offset == TailOffset(extent_offset2, new_entry)
      csum == compute_dirblock_checksum(
                ChecksummedEntries([entries EXCEPT ![Len(entries)] = shrunk], new_entry),
                get_block_size(sb), sb.uuid, self.ino, self.inode.body.generation)
  IN [ctx EXCEPT
        !.disk.blocks =
           write_entrydata(
             write_entrydata(
               write_entrydata(@, extent, extent_offset, shrunk),
               extent, extent_offset2, new_entry),
             extent, tail_offset, DirEntryTail(csum)),
        !.writes = @ \o <<W("entry", extent_offset), W("entry", extent_offset2),
                          W("tail", tail_offset)>>]

\* add_dir_entry_and_sync from the end of its scan of the directory (it):
\* the unwraps and asserts on what the scan found, then the writes.
AddAfterScan(sb, ctx, self, new_entry0, ex, it, linked, heap_abort) ==
  LET abort == [res |-> "Panic", ctx |-> ctx, dir |-> self]
      block_size == get_block_size(sb)
      extent_idx == IF it.st.extent_offset = 0 THEN it.st.extent_idx - 1
                    ELSE it.st.extent_idx
      extent == ex.extents[extent_idx + 1]
      last_entry == Last(it.entries)
      extent_offset == (IF it.st.extent_offset = 0 THEN block_size * extent.len
                        ELSE it.st.extent_offset) - get_rec_len(last_entry)
  IN IF ~ex.ok \/ it.abort \/ it.entries = <<>> THEN abort
     ELSE IF extent_idx < 0 \/ extent_idx >= Len(ex.extents) THEN abort
     ELSE IF extent_offset < 0 \/ ~it.st.tail_entry.some THEN abort
     ELSE IF it.st.tail_entry.val.checksum #
             compute_dirblock_checksum(it.entries, block_size, sb.uuid, self.ino,
                                       self.inode.body.generation)
          THEN abort
     ELSE IF extent_idx # 0 \/ extent.len # 1 THEN abort
     ELSE IF ~HasRoom(last_entry, new_entry0) THEN abort
     ELSE UpdateLinkCount(
            sb, WriteEntries(sb, ctx, self, extent, extent_offset, it.entries, new_entry0),
            self, linked, heap_abort)

\* Dir::add_dir_entry_and_sync: [res, ctx, dir]; dir is the handle with its
\* inode as the call leaves it.
add_dir_entry_and_sync(sb, ctx, self, ino, name, file_type, heap_abort) ==
  AddAfterScan(sb, ctx, self,
               DirEntryData_new(ino, name, file_type, has_feature_incompat_filetype(sb)),
               get_extents(self.inode), Iterate(sb, ctx.disk, self.inode),
               file_type.some /\ file_type.val = DirEntryFileType_DIR, heap_abort)

\* the is_dir argument create_file passes to alloc_inode
CreateFileAllocIsDir == TRUE

\* the generation create_dir hands to new_dir_entries
NewDirEntriesGeneration(self, new_inode) == self.inode.body.generation

\* NewInode with a fault: set_size is not called
NewInode_NoSize(sb, file_type_bits, links_count, a) ==
  [Inode_default EXCEPT
     !.head.uid = a.uid, !.head.gid = a.gid,
     !.head.mode = file_type_bits + (a.file_perm % (FILEPERM_MASK + 1)),
     !.head.atime = a.time, !.head.ctime = a.time, !.head.mtime = a.time,
     !.extra.crtime = a.time,
     !.head.links_count = links_count,
     !.body.osd1 = 1,
     !.head.blocks_lo = get_block_size(sb) \div INODE_BLOCK_SIZE,
     !.extra.extra_isize = sb.want_extra_isize,
     !.body.flags = EXTENTS_FL]

\* The inode create_dir / create_file synthesize, before the extent tree
NewInode(sb, file_type_bits, links_count, a) ==
  set_size(
    [Inode_default EXCEPT
       !.head.uid = a.uid, !.head.gid = a.gid,
       !.head.mode = file_type_bits + (a.file_perm % (FILEPERM_MASK + 1)),
       !.head.atime = a.time, !.head.ctime = a.time, !.head.mtime = a.time,
       !.extra.crtime = a.time,
       !.head.links_count = links_count,
       !.body.osd1 = 1,
       !.head.blocks_lo = get_block_size(sb) \div INODE_BLOCK_SIZE,
       !.extra.extra_isize = sb.want_extra_isize,
       !.body.flags = EXTENTS_FL],
    get_block_size(sb))

\* What a create gives back: res, the context and the handle it was called
\* on as the call leaves them, the handle returned (ret), and for the claims
\* the inode number allocated (0 if none) and the directory the last path
\* component was looked up in (0 if the walk did not get there).
Outcome(res, ctx, self, ret, new_ino, target) ==
  [res |-> res, ctx |-> ctx, self |-> self, ret |-> ret, new_ino |-> new_ino,
   target |-> target]

\* The three entries of a new directory written at offsets 0, 12 and
\* 12 + rec_len of "..".
WriteNewDirBlock(blocks, extent, new_entries) ==
  LET b1 == write_entrydata(blocks, extent, 0, new_entries[1])
      b2 == write_entrydata(b1, extent, get_rec_len(new_entries[1]), new_entries[2])
  IN write_entrydata(b2, extent,
                     get_rec_len(new_entries[1]) + get_rec_len(new_entries[2]),
                     new_entries[3])

\* The part create_dir and create_file share from alloc_inode to the write
\* of the new inode: [res, ctx, new_ino, new_inode, new_extent].
AllocAndWriteInode(sb, ctx, alloc_is_dir, file_type_bits, links_count, a) ==
  LET none == [res |-> "Ok", ctx |-> ctx, new_ino |-> 0,
               new_inode |-> Inode_default, new_extent |-> ZeroExtent]
  IN
  (LET let_ai(ai) ==
    IF ai.res # "Ok" THEN [none EXCEPT !.res = ai.res, !.ctx = ai.ctx]
    ELSE
      (LET let_ab(ab) ==
        IF ab.res # "Ok"
        THEN [none EXCEPT !.res = ab.res, !.ctx = ab.ctx, !.new_ino = ai.val]
        ELSE IF a.heap_abort = 1 /\ get_inode_size(sb) < SizeOfInode
        THEN [none EXCEPT !.res = "Panic", !.ctx = ab.ctx, !.new_ino = ai.val]
        ELSE
          (LET let_new_inode(new_inode) ==
            [res |-> "Ok",
             ctx |-> [disk |-> write_inode(sb, ab.ctx.disk, ai.val, new_inode),
                      bgds |-> ab.ctx.bgds,
                      writes |-> Logged(ab.ctx, "inode", ai.val)],
             new_ino |-> ai.val, new_inode |-> new_inode,
             new_extent |-> Extent_new(0, 1, ab.val)]
           IN let_new_inode(compute_and_set_checksum(
                  init_extent_tree(NewInode(sb, file_type_bits, links_count, a),
                  <<Extent_new(0, 1, ab.val)>>),
                  ai.val, get_inode_size(sb), sb.uuid)))
       IN let_ab(alloc_contiguous_blocks(sb, ai.ctx, 1, (ai.val - 1) \div sb.inodes_per_group,
                                         a.overflow_checks)))
   IN let_ai(alloc_inode(sb, ctx, alloc_is_dir, a.overflow_checks)))

\* Dir::create_dir.  a = [uid, gid, file_perm, time, oob, overflow_checks,
\* heap_abort]: the caller's arguments and the outcomes the build and the
\* memory decide: oob (the bytes behind a DirEntry2), overflow_checks, and
\* heap_abort: 0, or the call of Inode::compute_checksum (1 the new inode's,
\* 2 the parent's) at which the overrun of its buffer aborts the program.
RECURSIVE create_dir(_, _, _, _, _)
create_dir(sb, ctx, self, path, a) ==
  (LET let_sp(sp) ==
    IF sp.rest.some
    THEN (LET let_e(e) ==
           IF e.res # "Ok" THEN Outcome(e.res, ctx, self, NoDir, 0, 0)
           ELSE (LET let_d(d) ==
                  IF d.res # "Ok" THEN Outcome(d.res, ctx, self, NoDir, 0, 0)
                  ELSE [create_dir(sb, ctx, d.dir, sp.rest.val, a) EXCEPT !.self = self]
                 IN let_d(to_dir(sb, ctx.disk, e.data)))
          IN let_e(find_entry(sb, ctx.disk, self, sp.name)))
    ELSE
      (LET let_ex(ex) ==
        IF ex = "Panic" THEN Outcome("Panic", ctx, self, NoDir, 0, self.ino)
        ELSE IF ex = "Ok" THEN Outcome("AlreadyExists", ctx, self, NoDir, 0, self.ino)
        ELSE
          (LET let_w(w) ==
            IF w.res # "Ok" THEN Outcome(w.res, w.ctx, self, NoDir, w.new_ino, self.ino)
            ELSE IF ~has_feature_incompat_filetype(sb)
                 THEN Outcome("Panic", w.ctx, self, NoDir, w.new_ino, self.ino)
            ELSE
              (LET let_new_entries(new_entries) ==
              (LET let_ad(ad) ==
                IF ad.res # "Ok"
                THEN Outcome(ad.res, ad.ctx, self, NoDir, w.new_ino, self.ino)
                ELSE Outcome("Ok", ad.ctx, ad.dir, Dir_new(w.new_ino, w.new_inode),
                             w.new_ino, self.ino)
               IN let_ad(add_dir_entry_and_sync(
                      sb,
                      [w.ctx EXCEPT
                      !.disk.blocks = WriteNewDirBlock(@, w.new_extent, new_entries),
                      !.writes = Append(@, W("dirblock", get_block_loc(w.new_extent)))],
                      self, w.new_ino, sp.name, Some(DirEntryFileType_DIR), a.heap_abort = 2)))
               IN let_new_entries(new_dir_entries(w.new_ino, self.ino, get_block_size(sb), sb.uuid,
                      NewDirEntriesGeneration(self, w.new_inode), a.oob)))
           IN let_w(AllocAndWriteInode(sb, ctx, TRUE, InodeFileType_DIR, 2, a)))
       IN let_ex(is_exist(sb, ctx.disk, self, sp.name)))
   IN let_sp(split_path(path)))

\* Dir::create_file
RECURSIVE create_file(_, _, _, _, _)
create_file(sb, ctx, self, path, a) ==
  (LET let_sp(sp) ==
    IF sp.rest.some
    THEN (LET let_e(e) ==
           IF e.res # "Ok" THEN Outcome(e.res, ctx, self, NoDir, 0, 0)
           ELSE (LET let_d(d) ==
                  IF d.res # "Ok" THEN Outcome(d.res, ctx, self, NoDir, 0, 0)
                  ELSE [create_file(sb, ctx, d.dir, sp.rest.val, a) EXCEPT !.self = self]
                 IN let_d(to_dir(sb, ctx.disk, e.data)))
          IN let_e(find_entry(sb, ctx.disk, self, sp.name)))
    ELSE
      (LET let_ex(ex) ==
        IF ex = "Panic" THEN Outcome("Panic", ctx, self, NoDir, 0, self.ino)
        ELSE IF ex = "Ok" THEN Outcome("AlreadyExists", ctx, self, NoDir, 0, self.ino)
        ELSE
          (LET let_w(w) ==
            IF w.res # "Ok" THEN Outcome(w.res, w.ctx, self, NoDir, w.new_ino, self.ino)
            ELSE
              (LET let_ad(ad) ==
                IF ad.res # "Ok"
                THEN Outcome(ad.res, ad.ctx, self, NoDir, w.new_ino, self.ino)
                ELSE Outcome("Ok", ad.ctx, ad.dir, Dir_new(w.new_ino, w.new_inode),
                             w.new_ino, self.ino)
               IN let_ad(add_dir_entry_and_sync(sb, w.ctx, self, w.new_ino, sp.name,
                      Some(DirEntryFileType_REG_FILE), a.heap_abort = 2)))
           IN let_w(AllocAndWriteInode(sb, ctx, CreateFileAllocIsDir, InodeFileType_REG, 1, a)))
       IN let_ex(is_exist(sb, ctx.disk, self, sp.name)))
   IN let_sp(split_path(path)))

\* Dir::open_dir: [res, dir]
RECURSIVE open_dir(_, _, _, _)
open_dir(sb, disk, self, path) ==
  (LET let_sp(sp) ==
  (LET let_e(e) ==
    IF e.res # "Ok" THEN [res |-> e.res, dir |-> NoDir]
    ELSE (LET let_d(d) ==
           IF d.res # "Ok" THEN d
           ELSE IF sp.rest.some THEN open_dir(sb, disk, d.dir, sp.rest.val)
           ELSE d
          IN let_d(to_dir(sb, disk, e.data)))
   IN let_e(find_entry(sb, disk, self, sp.name)))
   IN let_sp(split_path(path)))

\* Dir::open_file: [res, dir], dir being the File handle (same fields)
RECURSIVE open_file(_, _, _, _)
open_file(sb, disk, self, path) ==
  (LET let_sp(sp) ==
  (LET let_e(e) ==
    IF e.res # "Ok" THEN [res |-> e.res, dir |-> NoDir]
    ELSE IF sp.rest.some
         THEN (LET let_d(d) ==
                IF d.res # "Ok" THEN d ELSE open_file(sb, disk, d.dir, sp.rest.val)
               IN let_d(to_dir(sb, disk, e.data)))
         ELSE to_file(sb, disk, e.data)
   IN let_e(find_entry(sb, disk, self, sp.name)))
   IN let_sp(split_path(path)))

-----------------------------------------------------------------------------
(* file.rs: File.  A handle is [ino, inode] as for Dir.  read(offset, buf)  *)
(* gives [res, val, buf, copied]: val is the count returned, buf the        *)
(* caller's buffer as the call leaves it, and copied the number of bytes    *)
(* the call stored in it.                                                   *)

Min(a, b) == IF a < b THEN a ELSE b

\* buf with bytes stored from position at + 1 on
StoreAt(buf, at, bytes) ==
  [i \in 1..Len(buf) |-> IF i > at /\ i <= at + Len(bytes) THEN bytes[i - at] ELSE buf[i]]

\* File::read, its loop over the extents: offset is the offset left to skip,
\* left_bytes the bytes still to read, copied the bytes stored so far.  An
\* error of read_exact leaves the loop with `?`.
RECURSIVE ReadExtents(_, _, _, _, _, _, _)
ReadExtents(sb, blocks, extents, offset, left_bytes, buf, copied) ==
  IF extents = <<>> THEN [res |-> "Ok", buf |-> buf, copied |-> copied]
  ELSE LET extent == Head(extents)
           span == extent.len * get_block_size(sb)
           read_bytes_in_extent == Min(left_bytes, span - offset)
       IN IF offset >= span
          THEN ReadExtents(sb, blocks, Tail(extents), offset - span, left_bytes, buf, copied)
          ELSE (LET let_r(r) ==
                 IF ~r.ok THEN [res |-> "Io", buf |-> buf, copied |-> copied]
                 ELSE IF left_bytes - read_bytes_in_extent = 0
                 THEN [res |-> "Ok", buf |-> StoreAt(buf, copied, r.bytes),
                       copied |-> copied + read_bytes_in_extent]
                 ELSE ReadExtents(sb, blocks, Tail(extents), 0,
                                  left_bytes - read_bytes_in_extent,
                                  StoreAt(buf, copied, r.bytes),
                                  copied + read_bytes_in_extent)
                IN let_r(read_bytes(blocks, extent, get_block_size(sb), offset,
                                    read_bytes_in_extent)))

\* File::read
File_read(sb, disk, self, offset, buf) ==
  LET none == [res |-> "Ok", val |-> 0, buf |-> buf, copied |-> 0]
      bytes_left_in_file == get_size(self.inode) - offset
      read_len == Min(bytes_left_in_file, Len(buf))
      ex == get_extents(self.inode)
  IN IF offset >= get_size(self.inode) THEN none
     ELSE IF read_len = 0 THEN none
     ELSE IF ~ex.ok THEN [none EXCEPT !.res = "Panic"]
     ELSE (LET let_r(r) ==
            [res |-> r.res, val |-> IF r.res = "Ok" THEN read_len ELSE 0,
             buf |-> r.buf, copied |-> r.copied]
           IN let_r(ReadExtents(sb, disk.blocks, ex.extents, offset, read_len, buf, 0)))

-----------------------------------------------------------------------------
(* The images the FileSystem is mounted on.  Three groups of 8 inodes and 8 *)
(* blocks, 1 KiB blocks:                                                    *)
(*   inode 2  /      block 5   ".", "..", "d" -> 3, "f" -> 4                *)
(*   inode 3  /d     block 6   ".", "..", "g" -> 7, "m" -> 17, "n" -> 18    *)
(*                             (generation 7)                               *)
(*   inode 4  /f     2048 bytes, logical block 0 in block 7, the second     *)
(*                   block never written (a hole at the end)                *)
(*   inode 7  /d/g   3072 bytes, logical block 0 in block 8, logical block  *)
(*                   2 in block 13, logical block 1 a hole                  *)
(* In /d entries were removed after "..", whose rec_len took their place:   *)
(* "g" is left with 12 bytes more than it needs.                            *)
(* Group 0 has inode 8 and block 4 free, and inode 8 was never used         *)
(* (itable_unused 1); group 1 has inode 16 and blocks 12, 14 and 15 free,   *)
(* and inode 16 was used before (itable_unused 0).  Group 2 has no free     *)
(* inode and its first block, 16, free; it holds two directories of two     *)
(* blocks and the empty files in them:                                      *)
(*   inode 17 /d/m   two extents of one block: block 20 ".", "..",          *)
(*                   "p" -> 19, block 21 "q" -> 20                          *)
(*   inode 18 /d/n   one extent of two blocks: block 22 ".", "..",          *)
(*                   "s" -> 21, block 23 "t" -> 22                          *)
(* With METADATA_CSUM every directory block ends in its tail.               *)

Uuid == <<4660, 22136>>

MkSuperBlock(inode_size, metadata_csum) ==
  [magic |-> EXT4_MAGIC, log_block_size |-> 0, inode_size |-> inode_size,
   desc_size |-> 64, feature_incompat_filetype |-> TRUE,
   feature_ro_compat_metadata_csum |-> metadata_csum, uuid |-> Uuid,
   inodes_per_group |-> 8, blocks_per_group |-> 8, group_count |-> 3,
   want_extra_isize |-> IF inode_size > 128 THEN 32 ELSE 0,
   free_inodes_count |-> 2, free_blocks_count |-> 5]

MkInode(sb, ino, file_type_bits, perm, links_count, generation, start) ==
  LET i0 == [Inode_default EXCEPT
               !.head.mode = file_type_bits + perm, !.head.uid = 1000, !.head.gid = 100,
               !.head.links_count = links_count,
               !.head.blocks_lo = get_block_size(sb) \div INODE_BLOCK_SIZE,
               !.body.flags = EXTENTS_FL, !.body.generation = generation,
               !.extra.extra_isize = sb.want_extra_isize]
      i1 == init_extent_tree(set_size(i0, get_block_size(sb)), <<Extent_new(0, 1, start)>>)
      i2 == IF get_inode_size(sb) < SizeOfInode THEN [i1 EXCEPT !.extra = ZeroExtra] ELSE i1
  IN IF has_feature_ro_compat_metadata_csum(sb)
     THEN compute_and_set_checksum(i2, ino, get_inode_size(sb), sb.uuid)
     ELSE i2

\* a regular file of size bytes with the extents given
MkFile(sb, ino, perm, size, extents) ==
  LET i0 == [Inode_default EXCEPT
               !.head.mode = InodeFileType_REG + perm, !.head.uid = 1000, !.head.gid = 100,
               !.head.links_count = 1,
               !.head.blocks_lo = Len(extents) * (get_block_size(sb) \div INODE_BLOCK_SIZE),
               !.body.flags = EXTENTS_FL,
               !.extra.extra_isize = sb.want_extra_isize]
      i1 == [set_size(i0, size) EXCEPT
               !.body.block =
                  [magic |-> EXTENT_MAGIC, entries |-> Len(extents), max |-> 4, depth |-> 0,
                   generation |-> 0,
                   slots |-> [k \in 1..4 |-> IF k <= Len(extents) THEN extents[k]
                                              ELSE ZeroExtent]]]
      i2 == IF get_inode_size(sb) < SizeOfInode THEN [i1 EXCEPT !.extra = ZeroExtra] ELSE i1
  IN IF has_feature_ro_compat_metadata_csum(sb)
     THEN compute_and_set_checksum(i2, ino, get_inode_size(sb), sb.uuid)
     ELSE i2

\* a directory of links_count 2 with the extents given
MkDir(sb, ino, extents) ==
  LET nblocks == Last(extents).block + Last(extents).len
      f == MkFile(sb, ino, 493, get_block_size(sb) * nblocks, extents)
      i1 == [f EXCEPT !.head.mode = InodeFileType_DIR + 493, !.head.links_count = 2,
                      !.head.blocks_lo = (get_block_size(sb) \div INODE_BLOCK_SIZE) * nblocks]
  IN IF has_feature_ro_compat_metadata_csum(sb)
     THEN compute_and_set_checksum(i1, ino, get_inode_size(sb), sb.uuid)
     ELSE i1

InitInodeTable(sb) ==
  [ino \in 1..(NumInodes(sb) + 1) |->
     CASE ino = ROOT_INO -> MkInode(sb, ino, InodeFileType_DIR, 493, 3, 0, 5)
       [] ino = 3 -> MkInode(sb, ino, InodeFileType_DIR, 493, 4, 7, 6)
       [] ino = 17 -> MkDir(sb, ino, <<Extent_new(0, 1, 20), Extent_new(1, 1, 21)>>)
       [] ino = 18 -> MkDir(sb, ino, <<Extent_new(0, 2, 22)>>)
       [] ino \in 19..22 -> MkFile(sb, ino, 420, 0, <<>>)
       [] ino = 4 -> MkFile(sb, ino, 420, 2 * get_block_size(sb), <<Extent_new(0, 1, 7)>>)
       [] ino = 7 -> MkFile(sb, ino, 420, 3 * get_block_size(sb),
                            <<Extent_new(0, 1, 8), Extent_new(2, 1, 13)>>)
       [] OTHER -> Inode_default]

\* A directory block from its ordinary entries: the last one takes what is
\* left, and with METADATA_CSUM the block ends in a tail.
RECURSIVE PlaceEntries(_, _, _)
PlaceEntries(entries, offset, end) ==
  IF entries = <<>> THEN <<>>
  ELSE IF Len(entries) = 1 THEN << [at |-> offset, e |-> set_rec_len(entries[1], end - offset)] >>
  ELSE << [at |-> offset, e |-> entries[1]] >>
       \o PlaceEntries(Tail(entries), offset + get_rec_len(entries[1]), end)

MkDirBlock(sb, ino, generation, entries) ==
  LET csum == has_feature_ro_compat_metadata_csum(sb)
      end == IF csum THEN get_block_size(sb) - TAIL_REC_LEN ELSE get_block_size(sb)
      placed == PlaceEntries(entries, 0, end)
      final == [i \in 1..Len(placed) |-> placed[i].e]
      tail == DirEntryTail(compute_dirblock_checksum(final, get_block_size(sb), sb.uuid,
                                                     ino, generation))
  IN [o \in {placed[i].at : i \in 1..Len(placed)} \cup (IF csum THEN {end} ELSE {}) |->
        IF csum /\ o = end THEN tail
        ELSE placed[CHOOSE i \in 1..Len(placed) : placed[i].at = o].e]

NameD == <<100>>
NameF == <<102>>
NameG == <<103>>
NameM == <<109>>
NameN == <<110>>

E2(sb, ino, ft, name) == DirEntryData_new(ino, name, Some(ft), TRUE)

InitBlocks(sb) ==
  [b \in 0..(sb.blocks_per_group * sb.group_count - 1) |->
     CASE b = 5 -> MkDirBlock(sb, ROOT_INO, 0,
                     <<E2(sb, ROOT_INO, DirEntryFileType_DIR, DotName),
                       E2(sb, ROOT_INO, DirEntryFileType_DIR, DotDotName),
                       E2(sb, 3, DirEntryFileType_DIR, NameD),
                       E2(sb, 4, DirEntryFileType_REG_FILE, NameF)>>)
       [] b = 6 -> MkDirBlock(sb, 3, 7,
                     <<E2(sb, 3, DirEntryFileType_DIR, DotName),
                       set_rec_len(E2(sb, ROOT_INO, DirEntryFileType_DIR, DotDotName),
                                   get_block_size(sb) - 12 - 12 - 12 - 24 - 12),
                       E2(sb, 7, DirEntryFileType_REG_FILE, NameG),
                       E2(sb, 17, DirEntryFileType_DIR, NameM),
                       E2(sb, 18, DirEntryFileType_DIR, NameN)>>)
       [] b = 20 -> MkDirBlock(sb, 17, 0,
                     <<E2(sb, 17, DirEntryFileType_DIR, DotName),
                       E2(sb, 3, DirEntryFileType_DIR, DotDotName),
                       E2(sb, 19, DirEntryFileType_REG_FILE, <<112>>)>>)
       [] b = 21 -> MkDirBlock(sb, 17, 0, <<E2(sb, 20, DirEntryFileType_REG_FILE, <<113>>)>>)
       [] b = 22 -> MkDirBlock(sb, 18, 0,
                     <<E2(sb, 18, DirEntryFileType_DIR, DotName),
                       E2(sb, 3, DirEntryFileType_DIR, DotDotName),
                       E2(sb, 21, DirEntryFileType_REG_FILE, <<115>>)>>)
       [] b = 23 -> MkDirBlock(sb, 18, 0, <<E2(sb, 22, DirEntryFileType_REG_FILE, <<116>>)>>)
       [] OTHER -> EmptyBlock]

MkBgd(sb, bgd_id, inode_bitmap, block_bitmap, used_dirs, itable_unused) ==
  LET b0 == [block_bitmap_lo |-> 8 * bgd_id + 1, inode_bitmap_lo |-> 8 * bgd_id + 2,
             inode_table_lo |-> 8 * bgd_id + 3,
             free_blocks_count_lo |-> ClearBits(block_bitmap), free_blocks_count_hi |-> 0,
             free_inodes_count_lo |-> ClearBits(inode_bitmap), free_inodes_count_hi |-> 0,
             used_dirs_count_lo |-> used_dirs, used_dirs_count_hi |-> 0,
             flags |-> 0,
             block_bitmap_csum_lo |-> 0, block_bitmap_csum_hi |-> 0,
             inode_bitmap_csum_lo |-> 0, inode_bitmap_csum_hi |-> 0,
             itable_unused_lo |-> itable_unused, itable_unused_hi |-> 0,
             checksum |-> 0]
      b1 == set_block_bitmap_csum(set_inode_bitmap_csum(b0, sb, inode_bitmap), sb, block_bitmap)
  IN IF has_feature_ro_compat_metadata_csum(sb) THEN set_checksum(b1, bgd_id, sb) ELSE b1

InitInodeBitmaps == << <<127>>, <<127>>, <<255>> >>   \* 0x7F, 0x7F, 0xFF
InitBlockBitmaps == << <<239>>, <<47>>, <<254>> >>    \* 0xEF, 0x2F, 0xFE

InitDisk(sb) ==
  [bgd |-> << MkBgd(sb, 0, InitInodeBitmaps[1], InitBlockBitmaps[1], 2, 1),
              MkBgd(sb, 1, InitInodeBitmaps[2], InitBlockBitmaps[2], 0, 0),
              MkBgd(sb, 2, InitInodeBitmaps[3], InitBlockBitmaps[3], 2, 0) >>,
   inode_bitmap |-> InitInodeBitmaps,
   block_bitmap |-> InitBlockBitmaps,
   inode_table |-> InitInodeTable(sb),
   blocks |-> InitBlocks(sb)]

\* a magic that is not 0xEF53
OtherMagic == 4660

\* The volumes and builds explored: [magic, inode_size, metadata_csum,
\* overflow_checks]
Setups ==
  { [magic |-> EXT4_MAGIC, inode_size |-> 256, metadata_csum |-> TRUE,
     overflow_checks |-> FALSE],
    [magic |-> EXT4_MAGIC, inode_size |-> 256, metadata_csum |-> TRUE,
     overflow_checks |-> TRUE],
    [magic |-> EXT4_MAGIC, inode_size |-> 128, metadata_csum |-> TRUE,
     overflow_checks |-> FALSE],
    [magic |-> EXT4_MAGIC, inode_size |-> 256, metadata_csum |-> FALSE,
     overflow_checks |-> FALSE],
    [magic |-> OtherMagic, inode_size |-> 256, metadata_csum |-> TRUE,
     overflow_checks |-> FALSE] }

\* the superblock the image of a setup holds
ImageSuperBlock(v) == [MkSuperBlock(v.inode_size, v.metadata_csum) EXCEPT !.magic = v.magic]

-----------------------------------------------------------------------------
(* The state machine: a client mounts a volume, takes the root handle and   *)
(* calls the public operations on it.                                       *)

VARIABLES
  super_block,               \* FileSystem.super_block
  block_group_descriptors,   \* FileSystem.block_group_descriptors
  disk,                      \* FileSystem.disk: the image
  overflow_checks,           \* the build: arithmetic overflow aborts or wraps
  mounted,                   \* FALSE once the program has aborted
  dir,                       \* the client's root handle
  nops,                      \* calls made so far that wrote to the image
  last                       \* the last call: what was asked and what came back

vars == <<super_block, block_group_descriptors, disk, overflow_checks, mounted, dir,
          nops, last>>

\* paths the client uses: a, /d//b/, x/a, d, d/g, a/c, f/a, f, d/bcdef, d/../a, b
PathA == <<97>>
PathB == <<98>>
PathDB == <<Slash, 100, Slash, Slash, 98, Slash>>
PathXA == <<120, Slash, 97>>
PathD == <<100>>
PathDG == <<100, Slash, 103>>
PathAC == <<97, Slash, 99>>
PathFA == <<102, Slash, 97>>
PathF == <<102>>
PathDLong == <<100, Slash, 98, 99, 100, 101, 102>>
PathDUpA == <<100, Slash, Dot, Dot, Slash, 97>>

\* the names, the inode numbers and the file types of the direct
\* add_dir_entry_and_sync calls: a name not yet there, "h", or a second entry
\* called "f", for the inode "f" stands for or for another one
NameH == <<104>>
AddNames == {NameH, NameF}
AddInos == {4, 7}
AddFileTypes == {None, Some(DirEntryFileType_DIR)}

CreatePaths == {PathA, PathB, PathDB, PathD, PathDG, PathAC, PathFA, PathDLong, PathDUpA}
OpenPaths == {PathD, PathF, PathDG, PathXA, PathA, PathDB}

\* the files read, the offsets and the buffer lengths of the reads
ReadPaths == {PathF, PathDG, PathA}
ReadOffsets == {0, 1020, 2044, 3072}
ReadLens == {0, 8}

\* the directories iterated: /, /d, /d/m, /d/n
IterInos == {ROOT_INO, 3, 17, 18}

\* the names looked up by find_entry: "d", "f", "x"
FindNames == {NameD, NameF, <<120>>}

NoArgs ==
  [uid |-> 0, gid |-> 0, file_perm |-> 0, time |-> 0, oob |-> 0, heap_abort |-> 0,
   overflow_checks |-> FALSE]

\* a direct add_dir_entry_and_sync call: only heap_abort 0 and 2 matter
AddArgs(sb) ==
  { [NoArgs EXCEPT !.heap_abort = h] :
      h \in IF get_inode_size(sb) < SizeOfInode THEN {0, 2} ELSE {0} }

\* the arguments of a create call and the outcomes left to the machine
CallArgs(sb, oc, oobs, aborts) ==
  { [uid |-> 1001, gid |-> 101, file_perm |-> 420, time |-> 5, oob |-> o, heap_abort |-> h,
     overflow_checks |-> oc] :
      o \in oobs, h \in IF get_inode_size(sb) < SizeOfInode THEN aborts ELSE {0} }

\* The record kept of a call: what was asked (op, path, a, and for the
\* calls that have them is_dir, count, bgd_id, ino, file_type, offset, len),
\* what came back (res, ret, new_ino, target, writes, and val, buf, copied
\* of a read, found of find_entry, steps of an iteration) and the image and
\* descriptors the call started from (before).
Call(op, res, path, a, new_ino, target, ret, writes) ==
  [op |-> op, res |-> res, path |-> path, a |-> a, new_ino |-> new_ino, target |-> target,
   ret |-> ret, writes |-> writes, is_dir |-> FALSE, count |-> 0, bgd_id |-> 0,
   ino |-> 0, file_type |-> None,
   offset |-> 0, len |-> 0, val |-> 0, buf |-> <<>>, copied |-> 0, found |-> None,
   steps |-> <<>>,
   before |-> [disk |-> disk, bgds |-> block_group_descriptors]]

Ctx == [disk |-> disk, bgds |-> block_group_descriptors, writes |-> <<>>]

\* FileSystem::new followed by root_dir()
Init ==
  /\ \E v \in Setups :
       /\ disk = InitDisk(ImageSuperBlock(v))
       /\ overflow_checks = v.overflow_checks
       /\ LET fs == FileSystem_new(ImageSuperBlock(v), disk)
          IN /\ fs.res = "Ok"
             /\ super_block = fs.super_block
             /\ block_group_descriptors = fs.block_group_descriptors
  /\ mounted = TRUE
  /\ dir = root_dir(super_block, disk)
  /\ nops = 0
  /\ last = Call("new", "Ok", <<>>, NoArgs, 0, 0, NoDir, <<>>)

\* A call that wrote nothing leaves the image and the descriptors as they
\* were: the calls that can follow it are those that could be made in its
\* place, and they are explored from there.
Explore == nops < MaxOps /\ (last.op = "new" \/ last.writes # <<>>)

\* The program is started again on the image an abort left behind.
Mount ==
  /\ ~mounted /\ last.writes # <<>>
  /\ mounted' = TRUE
  /\ FileSystem_new(super_block, disk).res = "Ok"
  /\ block_group_descriptors' = FileSystem_new(super_block, disk).block_group_descriptors
  /\ dir' = root_dir(super_block, disk)
  /\ last' = Call("new", "Ok", <<>>, NoArgs, 0, 0, NoDir, <<>>)
  /\ UNCHANGED <<super_block, disk, overflow_checks, nops>>

\* what every create call leaves behind
Created(op, path, a, r) ==
  /\ disk' = r.ctx.disk
  /\ block_group_descriptors' = r.ctx.bgds
  /\ dir' = r.self
  /\ mounted' = (r.res # "Panic")
  /\ nops' = IF r.ctx.writes = <<>> THEN nops ELSE nops + 1
  /\ last' = Call(op, r.res, path, a, r.new_ino, r.target, r.ret, r.ctx.writes)
  /\ UNCHANGED <<super_block, overflow_checks>>

CreateDir(path, a) ==
  /\ mounted /\ Explore
  /\ Created("create_dir", path, a, create_dir(super_block, Ctx, dir, path, a))

CreateFile(path, a) ==
  /\ mounted /\ Explore
  /\ Created("create_file", path, a, create_file(super_block, Ctx, dir, path, a))

Opened(op, path, r) ==
  /\ mounted' = (r.res # "Panic")
  /\ last' = Call(op, r.res, path, NoArgs, 0, 0, r.dir, <<>>)
  /\ UNCHANGED <<super_block, block_group_descriptors, disk, overflow_checks, dir, nops>>

OpenDir(path) ==
  /\ mounted /\ Explore
  /\ Opened("open_dir", path, open_dir(super_block, disk, dir, path))

OpenFile(path) ==
  /\ mounted /\ Explore
  /\ Opened("open_file", path, open_file(super_block, disk, dir, path))

\* Dir::find_entry called on the root handle
FoundEntry(name, r) ==
  /\ mounted' = (r.res # "Panic")
  /\ last' = [Call("find_entry", r.res, name, NoArgs, 0, dir.ino, NoDir, <<>>)
                EXCEPT !.found = IF r.res = "Ok" THEN Some(r.data) ELSE None]
  /\ UNCHANGED <<super_block, block_group_descriptors, disk, overflow_checks, dir, nops>>

FindEntry(name) ==
  /\ mounted /\ Explore
  /\ FoundEntry(name, find_entry(super_block, disk, dir, name))

\* File::read on the handle open_file(path) gave, the buffer zeroed
ReadDone(path, offset, len, file, r) ==
  /\ mounted' = (r.res # "Panic")
  /\ last' = [Call("read", r.res, path, NoArgs, 0, 0, file, <<>>)
                EXCEPT !.offset = offset, !.len = len, !.val = r.val, !.buf = r.buf,
                       !.copied = r.copied]
  /\ UNCHANGED <<super_block, block_group_descriptors, disk, overflow_checks, dir, nops>>

FileRead(path, offset, len) ==
  /\ mounted /\ Explore
  /\ LET f == open_file(super_block, disk, dir, path)
     IN /\ f.res = "Ok"
        /\ ReadDone(path, offset, len, f.dir,
                    File_read(super_block, disk, f.dir, offset, [i \in 1..len |-> 0]))

\* MaxNext calls of next() on the iterator of a handle made for inode ino:
\* Dir::new(ino, fs.get_inode(ino), fs).iter()
Iterated(ino, self, steps) ==
  /\ mounted' = ~Last(steps).abort
  /\ last' = [Call("iter", IF Last(steps).abort THEN "Panic" ELSE "Ok", <<>>, NoArgs, 0, ino,
                    self, <<>>)
                EXCEPT !.steps = steps]
  /\ UNCHANGED <<super_block, block_group_descriptors, disk, overflow_checks, dir, nops>>

DirIterate(ino) ==
  /\ mounted /\ Explore
  /\ LET inode == get_inode(super_block, disk, ino)
     IN /\ use_extents(inode)
        /\ Iterated(ino, Dir_new(ino, inode),
                    NextCalls(super_block, disk, inode, DirIter_new, MaxNext))

\* Dir::add_dir_entry_and_sync called on the root handle
Added(ino, name, file_type, a, r) ==
  /\ disk' = r.ctx.disk
  /\ block_group_descriptors' = r.ctx.bgds
  /\ dir' = r.dir
  /\ mounted' = (r.res # "Panic")
  /\ nops' = IF r.ctx.writes = <<>> THEN nops ELSE nops + 1
  /\ last' = [Call("add_dir_entry_and_sync", r.res, name, a, 0, dir.ino, NoDir,
                   r.ctx.writes)
                EXCEPT !.ino = ino, !.file_type = file_type]
  /\ UNCHANGED <<super_block, overflow_checks>>

AddDirEntryAndSync(ino, name, file_type, a) ==
  /\ mounted /\ Explore
  /\ Added(ino, name, file_type, a,
           add_dir_entry_and_sync(super_block, Ctx, dir, ino, name, file_type,
                                  a.heap_abort = 2))

Allocated(op, r, is_dir_arg, count, bgd_id) ==
  /\ disk' = r.ctx.disk
  /\ block_group_descriptors' = r.ctx.bgds
  /\ mounted' = (r.res # "Panic")
  /\ nops' = IF r.ctx.writes = <<>> THEN nops ELSE nops + 1
  /\ last' = [Call(op, r.res, <<>>, NoArgs, r.val, 0, NoDir, r.ctx.writes)
                EXCEPT !.is_dir = is_dir_arg, !.count = count, !.bgd_id = bgd_id]
  /\ UNCHANGED <<super_block, overflow_checks, dir>>

AllocInode(is_dir_arg) ==
  /\ mounted /\ Explore
  /\ Allocated("alloc_inode",
               alloc_inode(super_block, Ctx, is_dir_arg, overflow_checks), is_dir_arg, 0, 0)

AllocContiguousBlocks(count, bgd_id) ==
  /\ mounted /\ Explore
  /\ Allocated("alloc_contiguous_blocks",
               alloc_contiguous_blocks(super_block, Ctx, count, bgd_id, overflow_checks),
               FALSE, count, bgd_id)

Next ==
  \/ Mount
  \/ \E path \in CreatePaths : \E a \in CallArgs(super_block, overflow_checks, {0, 1}, 0..2) :
       CreateDir(path, a)
  \/ \E path \in CreatePaths : \E a \in CallArgs(super_block, overflow_checks, {0}, 0..1) :
       CreateFile(path, a)
  \/ \E path \in OpenPaths : OpenDir(path)
  \/ \E path \in OpenPaths : OpenFile(path)
  \/ \E ino \in AddInos : \E name \in AddNames : \E file_type \in AddFileTypes :
       \E a \in AddArgs(super_block) : AddDirEntryAndSync(ino, name, file_type, a)
  \/ \E is_dir_arg \in BOOLEAN : AllocInode(is_dir_arg)
  \/ \E count \in 1..3 : \E bgd_id \in 0..(Len(block_group_descriptors) - 1) :
       AllocContiguousBlocks(count, bgd_id)
  \/ \E name \in FindNames : FindEntry(name)
  \/ \E ino \in IterInos : DirIterate(ino)
  \/ \E path \in ReadPaths : \E offset \in ReadOffsets : \E len \in ReadLens :
       FileRead(path, offset, len)

Spec == Init /\ [][Next]_vars

-----------------------------------------------------------------------------
(* Bitmap::find_consecutive_unused_bits on its own: a client builds a       *)
(* Bitmap of two bytes and asks for a run.  No FileSystem is involved.      *)

\* the lengths of the runs asked for
MaxRun == 9

\* every first byte, followed by bytes that begin and end with runs of
\* different lengths: 0x00, 0xFF, 0x01, 0xFE, 0x80, 0x7F, 0x0F, 0xF0, 0x03,
\* 0xFC, 0x18, 0xE7, 0x55, 0xAA, 0x3C, 0xC3
SecondBytes == {0, 255, 1, 254, 128, 127, 15, 240, 3, 252, 24, 231, 85, 170, 60, 195}

BitmapsTried == {<<a, b>> : a \in 0..255, b \in SecondBytes}

InitBitmap ==
  /\ overflow_checks \in BOOLEAN
  /\ super_block = <<>>
  /\ block_group_descriptors = <<>>
  /\ disk = <<>>
  /\ mounted = TRUE
  /\ dir = NoDir
  /\ nops = 0
  /\ last = Call("new", "Ok", <<>>, NoArgs, 0, 0, NoDir, <<>>)

\* Bitmap { data }.find_consecutive_unused_bits(count)
FindRun(data, count) ==
  /\ mounted /\ last.op = "new"
  /\ LET r == find_consecutive_unused_bits(data, count, overflow_checks)
     IN /\ mounted' = ~r.abort
        /\ last' = [Call("find_consecutive_unused_bits", IF r.abort THEN "Panic" ELSE "Ok",
                         <<>>, NoArgs, 0, 0, NoDir, <<>>)
                      EXCEPT !.buf = data, !.count = count, !.found = r.found]
  /\ UNCHANGED <<super_block, block_group_descriptors, disk, overflow_checks, dir, nops>>

\* one call is made on each Bitmap
NextBitmap ==
  /\ mounted /\ last.op = "new"
  /\ \E data \in BitmapsTried : \E count \in 1..MaxRun : FindRun(data, count)

SpecBitmap == InitBitmap /\ [][NextBitmap]_vars

-----------------------------------------------------------------------------
(* What the properties below speak of.  The calls are made on the root      *)
(* handle; last.before is the image and the descriptor vector the last      *)
(* call started from.                                                       *)

Creates == {"create_dir", "create_file"}
Opens == {"open_dir", "open_file"}
Adds == Creates \cup {"add_dir_entry_and_sync"}

CsumVolume == has_feature_ro_compat_metadata_csum(super_block)

\* a METADATA_CSUM volume whose inode slots hold all of struct Inode
FullSlotVolume == CsumVolume /\ get_inode_size(super_block) >= SizeOfInode

Groups == 1..Len(block_group_descriptors)

\* the group (counted from 1) that holds inode ino
GroupOf(ino) == (ino - 1) \div super_block.inodes_per_group + 1

\* the four counters of a descriptor
Counters(bgd) ==
  [free_inodes_count |-> get_free_inodes_count(bgd),
   free_blocks_count |-> get_free_blocks_count(bgd),
   used_dirs_count |-> get_used_dirs_count(bgd),
   itable_unused |-> get_itable_unused(bgd)]

\* y = x - 1 for two u32 given as halves, without wrapping
IsOneBelow(y, x) ==
  \/ x.lo > 0 /\ y = [lo |-> x.lo - 1, hi |-> x.hi]
  \/ x.lo = 0 /\ x.hi > 0 /\ y = [lo |-> 65535, hi |-> x.hi - 1]

\* image and descriptors are what they were before the call
NothingChanged ==
  /\ disk = last.before.disk
  /\ block_group_descriptors = last.before.bgds

\* descriptors and bitmaps, in memory and on disk, are what they were
AllocationStateUnchanged ==
  /\ block_group_descriptors = last.before.bgds
  /\ disk.bgd = last.before.disk.bgd
  /\ disk.inode_bitmap = last.before.disk.inode_bitmap
  /\ disk.block_bitmap = last.before.disk.block_bitmap

\* the inodes of image d whose bitmap bit is set and whose mode says DIR
Directories(d) ==
  { ino \in 1..NumInodes(super_block) :
      /\ get_bit(d.inode_bitmap[GroupOf(ino)], (ino - 1) % super_block.inodes_per_group)
      /\ is_dir(get_inode(super_block, d, ino)) }

\* what a fresh iteration of directory ino of image d yields
Scan(d, ino) == Iterate(super_block, d, get_inode(super_block, d, ino))

RECURSIVE SumRecLen(_)
SumRecLen(entries) ==
  IF entries = <<>> THEN 0 ELSE get_rec_len(Head(entries)) + SumRecLen(Tail(entries))

\* the block of directory ino: its first extent's block
DirBlock(d, ino) ==
  d.blocks[get_block_loc(get_extents(get_inode(super_block, d, ino)).extents[1])]

\* the ordinary entries of directory ino tile its block up to the tail
Tiled(d, ino) ==
  LET it == Scan(d, ino)
      tail_at == get_block_size(super_block) - TAIL_REC_LEN
  IN /\ ~it.abort
     /\ it.st.tail_entry.some
     /\ SumRecLen(it.entries) + TAIL_REC_LEN = get_block_size(super_block)
     /\ tail_at \in DOMAIN DirBlock(d, ino)
     /\ DirBlock(d, ino)[tail_at].kind = "DirEntryTail"

\* the tail of directory ino holds the checksum of the entries an iteration
\* yields, under the directory's own inode number and generation
SelfVerifying(d, ino) ==
  LET it == Scan(d, ino)
  IN /\ ~it.abort
     /\ it.st.tail_entry.some
     /\ it.st.tail_entry.val.checksum =
          compute_dirblock_checksum(it.entries, get_block_size(super_block),
                                    super_block.uuid, ino,
                                    get_inode(super_block, d, ino).body.generation)

\* the check the tests make on an inode: stored checksum = computed checksum
InodeChecksumOk(d, ino) ==
  get_checksum(get_inode(super_block, d, ino)) =
    inode_compute_checksum(get_inode(super_block, d, ino), ino,
                           get_inode_size(super_block), super_block.uuid)

\* the descriptor of group g on image d carries its own checksum
DescriptorChecksumOk(d, g) ==
  d.bgd[g].checksum = bgd_compute_checksum(d.bgd[g], g - 1, super_block)

InodeBitmapCsumOk(d, g) ==
  [lo |-> d.bgd[g].inode_bitmap_csum_lo, hi |-> d.bgd[g].inode_bitmap_csum_hi] =
    BitmapCsum(super_block, d.inode_bitmap[g], (super_block.inodes_per_group + 7) \div 8)

BlockBitmapCsumOk(d, g) ==
  [lo |-> d.bgd[g].block_bitmap_csum_lo, hi |-> d.bgd[g].block_bitmap_csum_hi] =
    BitmapCsum(super_block, d.block_bitmap[g], super_block.blocks_per_group \div 8)

\* the maximal slash-free runs of path, in order; cur is the run being read
RECURSIVE SplitAtSlashes(_, _)
SplitAtSlashes(path, cur) ==
  IF path = <<>> THEN (IF cur = <<>> THEN <<>> ELSE <<cur>>)
  ELSE IF Head(path) = Slash
       THEN (IF cur = <<>> THEN <<>> ELSE <<cur>>) \o SplitAtSlashes(Tail(path), <<>>)
       ELSE SplitAtSlashes(Tail(path), Append(cur, Head(path)))

\* the components of a path
Components(path) == SplitAtSlashes(path, <<>>)

\* the inode number the first entry called name of directory ino holds, 0
\* when no entry has that name
ChildOf(d, ino, name) ==
  LET entries == Scan(d, ino).entries
      hits == {i \in 1..Len(entries) : get_name_str(entries[i]) = name}
  IN IF hits = {} THEN 0 ELSE entries[CHOOSE i \in hits : \A j \in hits : i <= j].inode

\* the directory reached from directory ino along comps: 0 when a component
\* is absent from the directory reached so far, -1 when one is no directory
RECURSIVE WalkFrom(_, _, _)
WalkFrom(d, ino, comps) ==
  IF comps = <<>> THEN ino
  ELSE IF ChildOf(d, ino, Head(comps)) = 0 THEN 0
  ELSE IF ~is_dir(get_inode(super_block, d, ChildOf(d, ino, Head(comps)))) THEN -1
  ELSE WalkFrom(d, ChildOf(d, ino, Head(comps)), Tail(comps))

\* the directory the parents of the last call's path lead to, before the call
ParentOfLast ==
  WalkFrom(last.before.disk, ROOT_INO,
           SubSeq(Components(last.path), 1, Len(Components(last.path)) - 1))

FinalOfLast == Last(Components(last.path))

-----------------------------------------------------------------------------
(* The properties *)

\* C1: when create_file or create_dir fails with NoSpace, every descriptor
\* and every inode and block bitmap, in memory and on disk, equals its value
\* before the call (stated for the volumes of FullSlotVolume).
C1_NoSpaceLeavesNoMutation ==
  (FullSlotVolume /\ last.op \in Creates /\ last.res = "NoSpace") => AllocationStateUnchanged

\* C2: on a volume whose directories tile their blocks at mount, every
\* directory of every reachable image tiles its block: the rec_len of its
\* ordinary entries and the 12 bytes of the tail add up to block_size, and
\* the tail sits at block_size - 12.
C2_DirectoryTiling ==
  CsumVolume => \A ino \in Directories(disk) : Tiled(disk, ino)

\* two entries were added to the root, the last one by a create_dir, and
\* the directory it made is there
C2_Witness ==
  /\ last.op = "create_dir" /\ last.res = "Ok" /\ last.target = ROOT_INO
  /\ Len(Scan(disk, ROOT_INO).entries) = 6
  /\ last.new_ino \in Directories(disk)

\* C3: a successful alloc_contiguous_blocks(k, g) lowers free_blocks_count
\* of g by k and changes no other counter of any group; a successful
\* alloc_inode(is_dir) lowers free_inodes_count and itable_unused of the
\* chosen group by 1, raises its used_dirs_count by 1 iff is_dir, and
\* changes no other counter of any group (stated for the volumes of
\* FullSlotVolume).
C3_AllocationAccounting ==
  FullSlotVolume =>
  /\ (last.op = "alloc_contiguous_blocks" /\ last.res = "Ok") =>
       \A g \in Groups :
         Counters(block_group_descriptors[g]) =
           IF g = last.bgd_id + 1
           THEN [Counters(last.before.bgds[g]) EXCEPT !.free_blocks_count = @ - last.count]
           ELSE Counters(last.before.bgds[g])
  /\ (last.op = "alloc_inode" /\ last.res = "Ok") =>
       \A g \in Groups :
         IF g = GroupOf(last.new_ino)
         THEN /\ get_free_inodes_count(block_group_descriptors[g]) =
                   get_free_inodes_count(last.before.bgds[g]) - 1
              /\ IsOneBelow(get_itable_unused(block_group_descriptors[g]),
                            get_itable_unused(last.before.bgds[g]))
              /\ get_used_dirs_count(block_group_descriptors[g]) =
                   get_used_dirs_count(last.before.bgds[g]) + (IF last.is_dir THEN 1 ELSE 0)
              /\ get_free_blocks_count(block_group_descriptors[g]) =
                   get_free_blocks_count(last.before.bgds[g])
         ELSE Counters(block_group_descriptors[g]) = Counters(last.before.bgds[g])

\* C4: a successful create_dir raises used_dirs_count of the new inode's
\* group by 1 and of no other group; a successful create_file leaves
\* used_dirs_count of every group as it was (stated for the volumes of
\* FullSlotVolume).
C4_UsedDirsCount ==
  FullSlotVolume =>
  /\ (last.op = "create_dir" /\ last.res = "Ok") =>
       \A g \in Groups :
         get_used_dirs_count(block_group_descriptors[g]) =
           get_used_dirs_count(last.before.bgds[g])
           + (IF g = GroupOf(last.new_ino) THEN 1 ELSE 0)
  /\ (last.op = "create_file" /\ last.res = "Ok") =>
       \A g \in Groups :
         get_used_dirs_count(block_group_descriptors[g]) =
           get_used_dirs_count(last.before.bgds[g])

\* C5: after a successful create_dir the tail of the new directory's block
\* holds the checksum over the UUID, the new directory's inode number, the
\* new directory's generation and its "." and ".." entries as serialized
\* (stated for the volumes of FullSlotVolume and the calls in which the
\* memory behind the entries read as zeros).
C5_NewDirTailChecksum ==
  (FullSlotVolume /\ last.op = "create_dir" /\ last.res = "Ok" /\ last.a.oob = 0) =>
    SelfVerifying(disk, last.new_ino)

\* C6: after a successful add_dir_entry_and_sync, called directly or by
\* create_dir or create_file, on a directory whose tail matched its
\* entries, the tail stored on disk holds the checksum of the entries a
\* fresh iteration of that directory yields, under its inode number and
\* generation.
C6_ParentSelfVerifying ==
  (last.op \in Adds /\ last.res = "Ok" /\ SelfVerifying(last.before.disk, last.target)) =>
    SelfVerifying(disk, last.target)

\* a create_file added the second new entry to a directory other than the
\* root, or to the root
C6_Witness ==
  /\ last.op = "create_file" /\ last.res = "Ok" /\ nops = 2
  /\ Len(Scan(disk, last.target).entries)
       = Len(Scan(InitDisk(super_block), last.target).entries) + 2

\* C7: after a successful alloc_inode or alloc_contiguous_blocks on a
\* METADATA_CSUM volume the descriptor of the affected group, as written to
\* disk, holds compute_checksum(group id) of itself, and its inode (block)
\* bitmap checksum is the CRC over the UUID and the bitmap bytes written;
\* the same holds of the group a successful create allocated in.
C7_DescriptorSelfConsistent ==
  /\ (CsumVolume /\ last.op = "alloc_inode" /\ last.res = "Ok") =>
       /\ DescriptorChecksumOk(disk, GroupOf(last.new_ino))
       /\ InodeBitmapCsumOk(disk, GroupOf(last.new_ino))
  /\ (CsumVolume /\ last.op = "alloc_contiguous_blocks" /\ last.res = "Ok") =>
       /\ DescriptorChecksumOk(disk, last.bgd_id + 1)
       /\ BlockBitmapCsumOk(disk, last.bgd_id + 1)
  /\ (CsumVolume /\ last.op \in Creates /\ last.res = "Ok") =>
       /\ DescriptorChecksumOk(disk, GroupOf(last.new_ino))
       /\ InodeBitmapCsumOk(disk, GroupOf(last.new_ino))
       /\ BlockBitmapCsumOk(disk, GroupOf(last.new_ino))

\* an inode was allocated in group 0 after two blocks of group 1 were
C7_Witness ==
  /\ CsumVolume /\ last.op = "alloc_inode" /\ last.res = "Ok" /\ nops = 2
  /\ disk.block_bitmap[2] # InitBlockBitmaps[2]
  /\ disk.inode_bitmap[1] # InitInodeBitmaps[1]

\* C8: for every inode size, 128 included, the inode a successful
\* create_dir or create_file wrote, and the parent inode a create_dir wrote
\* back, pass the check stored checksum = computed checksum.
C8_InodeChecksumAgrees ==
  (last.op \in Creates /\ last.res = "Ok") =>
    /\ InodeChecksumOk(disk, last.new_ino)
    /\ last.op = "create_dir" => InodeChecksumOk(disk, last.target)

\* C9: when the final component of the path names an entry of the directory
\* the parents lead to, create_dir and create_file return AlreadyExists;
\* and a call that returns AlreadyExists wrote nothing and changed neither
\* the image nor the descriptors in memory.
C9_AlreadyExists ==
  last.op \in Creates =>
    /\ (ParentOfLast > 0 /\ ChildOf(last.before.disk, ParentOfLast, FinalOfLast) # 0)
         => last.res = "AlreadyExists"
    /\ last.res = "AlreadyExists" => (last.writes = <<>> /\ NothingChanged)

\* a name made by an earlier create is asked for again
C9_Witness ==
  /\ last.op \in Creates /\ last.res = "AlreadyExists"
  /\ ChildOf(InitDisk(super_block), ParentOfLast, FinalOfLast) = 0

\* C10: for a path of several components, open_dir, open_file, create_dir
\* and create_file return NotFound when a parent is absent from the
\* directory reached so far, and nothing changes; when the parents exist a
\* create puts the new entry into the directory the last parent names and
\* leaves the handle's own directory alone, and an open returns what the
\* final name holds in that directory.
C10_PathWalk ==
  (last.op \in Creates \cup Opens /\ Len(Components(last.path)) > 1) =>
    /\ ParentOfLast = 0 => (last.res = "NotFound" /\ NothingChanged)
    /\ (ParentOfLast > 0 /\ last.op \in Creates) =>
         /\ last.res \in {"Ok", "AlreadyExists"} => last.target = ParentOfLast
         /\ last.res = "Ok" =>
              /\ ChildOf(disk, ParentOfLast, FinalOfLast) = last.new_ino
              /\ ParentOfLast # ROOT_INO =>
                   Scan(disk, ROOT_INO).entries = Scan(last.before.disk, ROOT_INO).entries
    /\ (ParentOfLast > 0 /\ last.op \in Opens) =>
         /\ last.res = "Ok" =>
              last.ret.ino = ChildOf(last.before.disk, ParentOfLast, FinalOfLast)
         /\ ChildOf(last.before.disk, ParentOfLast, FinalOfLast) = 0
              => last.res = "NotFound"

\* a directory was made inside a directory that an earlier call made
C10_Witness ==
  /\ last.op = "create_dir" /\ last.res = "Ok"
  /\ ParentOfLast > 0 /\ ParentOfLast # ROOT_INO
  /\ ParentOfLast \notin Directories(InitDisk(super_block))

-----------------------------------------------------------------------------
\* C11: mounting validates the superblock magic: FileSystem::new fails for
\* an image whose magic is not 0xEF53, so the superblock of every mounted
\* FileSystem has magic 0xEF53.
C11_MountValidatesMagic ==
  (mounted /\ last.op = "new" /\ last.res = "Ok") => super_block.magic = EXT4_MAGIC

-----------------------------------------------------------------------------
(* File::read.  last.ret is the handle the read was made on, last.buf the   *)
(* caller's buffer after the call, last.copied the bytes stored in it.      *)

Reads == last.op = "read" /\ last.res = "Ok"

\* the bytes the extents of an inode cover
Covered(inode) ==
  LET ex == get_extents(inode).extents
      RECURSIVE Sum(_)
      Sum(k) == IF k = 0 THEN 0 ELSE ex[k].len * get_block_size(super_block) + Sum(k - 1)
  IN Sum(Len(ex))

\* C12: File::read(offset, buf) returns 0 when offset >= size and otherwise
\* min(buf.len, size - offset), and the value returned is the number of
\* bytes copied into buf, also when the extents cover fewer bytes than size.
C12_ReadCount ==
  Reads =>
    /\ last.offset >= get_size(last.ret.inode) => last.val = 0
    /\ last.offset < get_size(last.ret.inode)
         => last.val = Min(last.len, get_size(last.ret.inode) - last.offset)
    /\ last.val = last.copied

\* the extent of an inode that holds logical block lb, if there is one
ExtentsHolding(inode, lb) ==
  LET ex == get_extents(inode).extents
  IN {k \in 1..Len(ex) : ex[k].block <= lb /\ lb < ex[k].block + ex[k].len}

\* the byte at logical offset k of a file; None in a hole
LogicalByte(d, inode, k) ==
  LET bs == get_block_size(super_block)
      ex == get_extents(inode).extents
      hold == ExtentsHolding(inode, k \div bs)
  IN IF hold = {} THEN None
     ELSE LET e == ex[CHOOSE j \in hold : TRUE]
          IN Some(ByteAt(d.blocks, get_block_loc(e) + (k \div bs) - e.block, k % bs))

\* logical blocks no extent holds although a later extent exists
GapBlocks(inode) ==
  LET ex == get_extents(inode).extents
  IN {lb \in 0..(IF ex = <<>> THEN 0 ELSE Last(ex).block) :
        ExtentsHolding(inode, lb) = {}}

\* the logical blocks a read(offset, buf) of len bytes asks for
BlocksAsked(inode, offset, len) ==
  LET bs == get_block_size(super_block)
      n == Min(len, get_size(inode) - offset)
  IN IF offset >= get_size(inode) \/ n = 0 THEN {}
     ELSE (offset \div bs)..((offset + n - 1) \div bs)

\* C13: a File::read whose range holds an unallocated logical block between
\* two extents fails with Unsupported; and for a file whose extents are
\* contiguous from logical block 0, byte i of the result is the byte at
\* logical offset offset + i of the file.
C13_ReadLogicalPosition ==
  (last.op = "read" /\ last.res # "Panic") =>
    /\ BlocksAsked(last.ret.inode, last.offset, last.len) \cap GapBlocks(last.ret.inode) # {}
         => last.res = "Unsupported"
    /\ (last.res = "Ok" /\ GapBlocks(last.ret.inode) = {})
         => \A i \in 1..last.copied :
              Some(last.buf[i]) = LogicalByte(disk, last.ret.inode, last.offset + i - 1)

-----------------------------------------------------------------------------
\* the positions, in the order of iteration, of the entries of directory ino
\* whose name is name
Hits(d, ino, name) ==
  {i \in 1..Len(Scan(d, ino).entries) :
     SubSeq(Scan(d, ino).entries[i].name, 1, Scan(d, ino).entries[i].name_len) = name}

\* C14: find_entry(name) returns the first entry, in on-disk iteration
\* order, whose name equals name, and NotFound exactly when no entry the
\* iteration yields has that name.
C14_FindFirstMatch ==
  (last.op = "find_entry" /\ last.res # "Panic") =>
    /\ last.res \in {"Ok", "NotFound"}
    /\ last.res = "NotFound" <=> Hits(disk, last.target, last.path) = {}
    /\ last.res = "Ok" =>
         /\ last.found.some
         /\ get_name_str(last.found.val) = last.path
         /\ last.found.val = Scan(disk, last.target).entries[MinOf(Hits(disk, last.target, last.path))]

\* find_entry has returned the first of two entries of the same name
C14_Witness ==
  /\ last.op = "find_entry" /\ last.res = "Ok"
  /\ Cardinality(Hits(disk, last.target, last.path)) = 2
  /\ last.found.val # Last(Scan(disk, last.target).entries)

-----------------------------------------------------------------------------
\* the part of struct Inode that lies inside the inode_size bytes of its slot
StoredPart(inode) ==
  IF get_inode_size(super_block) < SizeOfInode
  THEN [head |-> inode.head, body |-> inode.body]
  ELSE inode

\* the blocks whose bitmap bit was clear before the last call and is set now
BlocksTaken ==
  { b \in 0..(super_block.blocks_per_group * super_block.group_count - 1) :
      LET g == b \div super_block.blocks_per_group + 1
          bit == b % super_block.blocks_per_group
      IN /\ ~get_bit(last.before.disk.block_bitmap[g], bit)
         /\ get_bit(disk.block_bitmap[g], bit) }

\* C15: the inode a successful create_dir leaves at inode_position(new_ino)
\* has type DIR with the requested permission bits, flags EXTENTS_FL,
\* links_count 2, size block_size, blocks_lo block_size / 512 and a depth-0
\* extent tree of one extent (logical 0, length 1) at the block just
\* allocated; create_file the same with type REG and links_count 1; and the
\* handle returned carries that inode.
C15_NewInodeOnDisk ==
  (last.op \in Creates /\ last.res = "Ok") =>
    LET inode == get_inode(super_block, disk, last.new_ino)
        tree == inode.body.block
    IN /\ get_file_type(inode) = IF last.op = "create_dir" THEN InodeFileType_DIR
                                  ELSE InodeFileType_REG
       /\ get_file_perm(inode) = last.a.file_perm
       /\ inode.body.flags = EXTENTS_FL
       /\ inode.head.links_count = IF last.op = "create_dir" THEN 2 ELSE 1
       /\ get_size(inode) = get_block_size(super_block)
       /\ inode.head.blocks_lo = get_block_size(super_block) \div INODE_BLOCK_SIZE
       /\ tree.magic = EXTENT_MAGIC /\ tree.depth = 0 /\ tree.entries = 1
       /\ tree.slots[1].block = 0 /\ tree.slots[1].len = 1
       /\ BlocksTaken = {get_block_loc(tree.slots[1])}
       /\ last.ret.ino = last.new_ino
       /\ StoredPart(last.ret.inode) = StoredPart(inode)

\* a create_dir under /d has succeeded on the volume with 128-byte inodes
C15_Witness ==
  /\ last.op = "create_dir" /\ last.res = "Ok" /\ last.target = 3
  /\ get_inode_size(super_block) = 128
  /\ is_dir(get_inode(super_block, disk, last.new_ino))

-----------------------------------------------------------------------------
\* links_count of inode ino on image d
LinksCount(d, ino) == get_inode(super_block, d, ino).head.links_count

\* C16: a successful create_dir changes the parent's links_count by exactly
\* +1 and a successful create_file leaves it unchanged; after create_dir
\* the parent inode on disk carries the incremented links_count together
\* with a checksum recomputed over it (stored checksum = computed checksum).
C16_ParentLinksCount ==
  (CsumVolume /\ last.op \in Creates /\ last.res = "Ok") =>
    /\ last.op = "create_file"
         => LinksCount(disk, last.target) = LinksCount(last.before.disk, last.target)
    /\ last.op = "create_dir"
         => /\ LinksCount(disk, last.target) = LinksCount(last.before.disk, last.target) + 1
            /\ InodeChecksumOk(disk, last.target)

-----------------------------------------------------------------------------
\* the last call got as far as adding an entry to directory last.target: a
\* direct add_dir_entry_and_sync, or a create that has written its new inode
AddReached ==
  \/ last.op = "add_dir_entry_and_sync"
  \/ /\ last.op \in Creates
     /\ \E i \in 1..Len(last.writes) : last.writes[i] = W("inode", last.new_ino)

\* the name of the entry the last call adds
NameAdded == IF last.op \in Creates THEN FinalOfLast ELSE last.path

\* before the last call, the last entry of directory ino had less slack than
\* an entry called name needs
NoSlackFor(ino, name) ==
  LET entries == Scan(last.before.disk, ino).entries
  IN /\ entries # <<>>
     /\ get_rec_len(Last(entries)) - get_real_rec_len(Last(entries))
          < ((8 + Len(name) + 3) \div 4) * 4

\* C17: when the last entry of the parent directory block has less slack
\* than the new entry needs, adding the entry fails with the NoSpace error
\* value (the program does not abort) and the parent directory block is
\* not written.
C17_NoSlackIsNoSpace ==
  (CsumVolume /\ AddReached /\ NoSlackFor(last.target, NameAdded)) =>
    /\ last.res = "NoSpace"
    /\ DirBlock(disk, last.target) = DirBlock(last.before.disk, last.target)

-----------------------------------------------------------------------------
\* the checksum fields of a descriptor
ChecksumFields(bgd) ==
  <<bgd.checksum, bgd.block_bitmap_csum_lo, bgd.block_bitmap_csum_hi,
    bgd.inode_bitmap_csum_lo, bgd.inode_bitmap_csum_hi>>

\* C18: on a volume without METADATA_CSUM every checksum path is a no-op:
\* an allocation leaves the checksum and bitmap-checksum fields of the
\* descriptors unchanged, a create leaves the checksum fields of the inode
\* it writes at their prior value, and adding a directory entry neither
\* requires nor writes a checksum tail, so that create_dir and create_file
\* still succeed.
C18_NoCsumNoOps ==
  ~CsumVolume =>
    /\ (last.op \in {"alloc_inode", "alloc_contiguous_blocks"} /\ last.res = "Ok")
         => \A g \in Groups :
              /\ ChecksumFields(block_group_descriptors[g]) = ChecksumFields(last.before.bgds[g])
              /\ ChecksumFields(disk.bgd[g]) = ChecksumFields(last.before.disk.bgd[g])
    /\ (last.op \in Creates /\ AddReached)
         => get_checksum(get_inode(super_block, disk, last.new_ino))
              = get_checksum(get_inode(super_block, last.before.disk, last.new_ino))
    /\ (last.op \in Creates /\ AddReached /\ ~NoSlackFor(last.target, NameAdded))
         => /\ last.res = "Ok"
            /\ \A o \in DOMAIN DirBlock(disk, last.target) :
                 DirBlock(disk, last.target)[o].kind # "DirEntryTail"

-----------------------------------------------------------------------------
\* s is an initial part of t
IsPrefix(s, t) == Len(s) <= Len(t) /\ s = SubSeq(t, 1, Len(s))

\* The writes the protocol prescribes for the last create, from what the
\* call allocated and from the parent block as it was before the call: the
\* inode bitmap and the descriptor of the first group that had a free
\* inode, the block bitmap and the same descriptor, the new inode, for
\* create_dir the new directory block, then in the parent block the last
\* entry, the new entry behind it and the tail, and for create_dir the
\* parent inode.
PrescribedWrites ==
  LET g == MinOf({h \in Groups : get_free_inodes_count(last.before.bgds[h]) > 0}) - 1
      entries == Scan(last.before.disk, last.target).entries
      tail_at == get_block_size(super_block) - TAIL_REC_LEN
      last_at == tail_at - get_rec_len(Last(entries))
      new_at == last_at + get_real_rec_len(Last(entries))
      is_create_dir == last.op = "create_dir"
  IN <<W("inode_bitmap", g), W("bgd", g), W("block_bitmap", g), W("bgd", g),
       W("inode", last.new_ino)>>
     \o (IF is_create_dir
         THEN <<W("dirblock", IF BlocksTaken = {} THEN 0 ELSE MinOf(BlocksTaken))>>
         ELSE <<>>)
     \o <<W("entry", last_at), W("entry", new_at), W("tail", tail_at)>>
     \o (IF is_create_dir THEN <<W("inode", last.target)>> ELSE <<>>)

\* C19: within one create_dir the writes reach the stream in this order and
\* no other: inode bitmap, descriptor, block bitmap, descriptor, new inode,
\* new directory block, the parent's shrunk last entry, the parent's new
\* entry, the parent's tail, the parent inode; create_file issues the same
\* sequence without the new directory block and the parent inode.  A call
\* that ends early has issued an initial part of the sequence.
C19_WriteOrder ==
  (last.op \in Creates /\ last.writes # <<>>) =>
    /\ IsPrefix(last.writes, PrescribedWrites)
    /\ last.res = "Ok" => last.writes = PrescribedWrites

\* a create_dir and nothing else has put all ten writes on the stream
C19_Witness ==
  /\ CsumVolume /\ last.op = "create_dir" /\ last.res = "Ok"
  /\ Len(last.writes) = 10
  /\ last.target = 3

\* the first bits of the runs of k clear bits in a bitmap
RunStarts(data, k) ==
  {s \in 0..(8 * Len(data) - k) : \A i \in s..(s + k - 1) : ~get_bit(data, i)}

\* the block bitmap of group g (counted from 1) before and after the call
BlockBitmapBefore(g) == last.before.disk.block_bitmap[g]

\* C20: alloc_contiguous_blocks(k, g) with k >= 1 succeeds iff the
\* free_blocks_count of g is at least k and the block bitmap of g holds a
\* run of k clear bits.  On success it returns g * blocks_per_group + s with
\* s the first bit of the lowest such run, the bits s..s+k-1 are set, every
\* other bit of that bitmap and every other group's bitmap is as before.  On
\* failure it returns NoSpace, has written nothing and has changed no
\* descriptor in memory.
C20_ContiguousRun ==
  (last.op = "alloc_contiguous_blocks" /\ last.count >= 1) =>
    LET g == last.bgd_id + 1
        k == last.count
        starts == RunStarts(BlockBitmapBefore(g), k)
        enough == get_free_blocks_count(last.before.bgds[g]) >= k
    IN /\ last.res \in {"Ok", "NoSpace"}
       /\ last.res = "Ok" <=> (enough /\ starts # {})
       /\ last.res = "Ok" =>
            LET s == MinOf(starts)
            IN /\ last.new_ino = last.bgd_id * super_block.blocks_per_group + s
               /\ \A i \in 0..(8 * Len(BlockBitmapBefore(g)) - 1) :
                    get_bit(disk.block_bitmap[g], i) =
                      (get_bit(BlockBitmapBefore(g), i) \/ i \in s..(s + k - 1))
               /\ \A h \in Groups \ {g} :
                    disk.block_bitmap[h] = last.before.disk.block_bitmap[h]
       /\ last.res = "NoSpace" =>
            /\ last.writes = <<>>
            /\ block_group_descriptors = last.before.bgds
            /\ disk = last.before.disk

-----------------------------------------------------------------------------
\* the inode number the entry added by the last call stands for
InoAdded == IF last.op \in Creates THEN last.new_ino ELSE last.ino

\* the entries of directory last.target before and after the last call
EntriesBefore == Scan(last.before.disk, last.target).entries
EntriesAfter == Scan(disk, last.target).entries

\* ceil((8 + name_len) / 4) * 4
RoundedLen(e) == 4 * ((8 + e.name_len) \div 4) + (IF (8 + e.name_len) % 4 = 0 THEN 0 ELSE 4)

\* every entry that was there is there as before, the last one with rec_len
\* cut to what its name needs, and the new entry follows with the rest
EntriesKept ==
  LET n == Len(EntriesBefore)
  IN /\ ~Scan(disk, last.target).abort
     /\ Len(EntriesAfter) = n + 1
     /\ \A i \in 1..(n - 1) : EntriesAfter[i] = EntriesBefore[i]
     /\ EntriesAfter[n] = [EntriesBefore[n] EXCEPT !.rec_len = RoundedLen(EntriesBefore[n])]
     /\ EntriesAfter[n + 1].inode = InoAdded
     /\ get_name_str(EntriesAfter[n + 1]) = NameAdded
     /\ EntriesAfter[n + 1].rec_len =
          EntriesBefore[n].rec_len - RoundedLen(EntriesBefore[n])

\* find_entry on the handle the call was made on gives the inode number added
FoundAdded ==
  LET self == Dir_new(last.target, get_inode(super_block, disk, last.target))
      r == find_entry(super_block, disk, self, NameAdded)
  IN r.res = "Ok" /\ r.data.inode = InoAdded

\* C21: a successful add_dir_entry_and_sync (direct, or as the last step of
\* create_dir / create_file) leaves inode number, name, file type and order
\* of the entries that were there, changes only the rec_len of the entry
\* that was last, to ceil((8 + name_len) / 4) * 4, and puts the new entry
\* behind it with the rec_len released; an iteration then yields the old
\* entries followed by the new one, and find_entry of the new name gives
\* the new inode number.
C21_AddKeepsEntries ==
  (last.op \in Adds /\ last.res = "Ok") => (EntriesKept /\ FoundAdded)

\* no entry of the directory had the name added by the last call
FreshName == \A i \in 1..Len(EntriesBefore) : get_name_str(EntriesBefore[i]) # NameAdded

\* C21 for a name the directory did not hold: the entries that were there
\* are kept as the claim says, the new entry is the last one, and find_entry
\* of the new name gives the new inode number.  For a name already there
\* only the part about the entries holds: find_entry gives the first match.
C21_AddKeepsEntriesFresh ==
  (last.op \in Adds /\ last.res = "Ok") =>
    /\ EntriesKept
    /\ FreshName => FoundAdded

\* "h" was added to the root for inode 7: "f", last until then, went from
\* the rest of the block to 12 bytes
C21_Witness ==
  /\ last.op = "add_dir_entry_and_sync" /\ last.res = "Ok"
  /\ last.ino = 7 /\ last.path = NameH /\ FreshName
  /\ Len(EntriesAfter) = 5
  /\ EntriesBefore[4].rec_len > 12 /\ EntriesAfter[4].rec_len = 12
  /\ FoundAdded

-----------------------------------------------------------------------------
Allocs == {"alloc_inode", "alloc_contiguous_blocks"}

\* the descriptor vector a mount of the image would read
DescriptorsOnDisk == FileSystem_new(super_block, disk).block_group_descriptors

\* the inode the image holds for the client's handle
HandleInodeOnDisk == get_inode(super_block, disk, dir.ino)

\* C22: after a successful alloc_inode, alloc_contiguous_blocks, create_dir
\* or create_file, element i of the descriptor vector in memory is the
\* descriptor a mount would read from the image as element i, and the inode
\* held by the handle the call was made on is the inode the image holds for
\* its inode number.
C22_MemoryMirrorsDisk ==
  (last.op \in Allocs \cup Creates /\ last.res = "Ok") =>
    /\ block_group_descriptors = DescriptorsOnDisk
    /\ StoredPart(dir.inode) = StoredPart(HandleInodeOnDisk)

-----------------------------------------------------------------------------
\* the extents of the handle the last call iterated, in logical order
IterExtents == get_extents(last.ret.inode).extents

\* the blocks of those extents, each with its place in the directory
IterBlocks ==
  UNION { { [at |-> IterExtents[k].block + j, b |-> get_block_loc(IterExtents[k]) + j] :
              j \in 0..(IterExtents[k].len - 1) } : k \in 1..Len(IterExtents) }

\* the entries block b of image d holds tile it: the first at 0, each one
\* where the one before it ends, the last one ending with the block
BlockTiles(d, b) ==
  LET offs == DOMAIN d.blocks[b]
  IN /\ 0 \in offs
     /\ \A o \in offs :
          LET end == o + d.blocks[b][o].rec_len
          IN d.blocks[b][o].rec_len > 0
             /\ (end = get_block_size(super_block) \/ end \in offs)

\* the ordinary entries the directory holds, each with the byte it starts at
OrdinaryPlaced ==
  UNION { { [pos |-> x.at * get_block_size(super_block) + o, e |-> disk.blocks[x.b][o]] :
              o \in {q \in DOMAIN disk.blocks[x.b] :
                       disk.blocks[x.b][q].kind # "DirEntryTail"} } : x \in IterBlocks }

\* those entries in on-disk order
OrdinaryInOrder ==
  [i \in 1..Cardinality(OrdinaryPlaced) |->
     (CHOOSE p \in OrdinaryPlaced :
        Cardinality({q \in OrdinaryPlaced : q.pos < p.pos}) = i - 1).e]

\* the first call of next() that returned None (Len + 1 if none did)
FirstNone ==
  MinOf({i \in 1..Len(last.steps) : ~last.steps[i].item.some} \cup {Len(last.steps) + 1})

\* what the iterator yielded before it first returned None
Yielded == [i \in 1..(FirstNone - 1) |-> last.steps[i].item.val]

\* a call that yielded an entry went on by its rec_len, and to offset 0 of
\* the next extent exactly when that reached the end of the extent
StepsAdvance ==
  \A i \in 1..Len(last.steps) :
    LET c == last.steps[i]
        off == c.from.extent_offset + c.item.val.rec_len
        lim == IterExtents[c.from.extent_idx + 1].len * get_block_size(super_block)
    IN c.item.some =>
         /\ c.st.tail_entry = c.from.tail_entry
         /\ IF off >= lim
            THEN c.st.extent_idx = c.from.extent_idx + 1 /\ c.st.extent_offset = 0
            ELSE c.st.extent_idx = c.from.extent_idx /\ c.st.extent_offset = off

\* a call returned None where the extents were exhausted, or where a tail
\* stood, which it recorded; the iterator stayed where it was, and every
\* later call returned None
NoneIsFinal ==
  \A i \in 1..Len(last.steps) :
    LET c == last.steps[i]
    IN ~c.item.some =>
         /\ c.st.extent_idx = c.from.extent_idx /\ c.st.extent_offset = c.from.extent_offset
         /\ \/ c.from.extent_idx >= Len(IterExtents) /\ c.st.tail_entry = c.from.tail_entry
            \/ /\ c.from.extent_idx < Len(IterExtents)
               /\ c.st.tail_entry.some
               /\ c.st.tail_entry.val.kind = "DirEntryTail"
               /\ c.st.tail_entry.val.inode = 0
               /\ c.st.tail_entry.val.rec_len = TAIL_REC_LEN
         /\ \A j \in i..Len(last.steps) : ~last.steps[j].item.some

\* C23: iterating a directory whose blocks tile correctly terminates:
\* next() yields each ordinary entry exactly once in on-disk order, moves to
\* offset 0 of the next extent exactly when the running offset reaches or
\* passes extent.len * block_size, returns None and records the tail when a
\* tail entry is read, returns None when the extents are exhausted, and
\* returns None on every later call.
C23_IterationTerminates ==
  (last.op = "iter" /\ \A x \in IterBlocks : BlockTiles(disk, x.b)) =>
    /\ last.res = "Ok"
    /\ FirstNone <= Len(last.steps)
    /\ Yielded = OrdinaryInOrder
    /\ StepsAdvance
    /\ NoneIsFinal

-----------------------------------------------------------------------------
\* C24: find_consecutive_unused_bits(k), for every bitmap and every k >= 1,
\* returns Some(i) iff the bitmap holds k consecutive clear bits (bit 0 the
\* least significant bit of byte 0, runs may cross bytes), and i is then the
\* first bit of the lowest such run; otherwise it returns None.
C24_FindRun ==
  last.op = "find_consecutive_unused_bits" =>
    /\ last.res = "Ok"
    /\ last.found = IF RunStarts(last.buf, last.count) = {} THEN None
                    ELSE Some(MinOf(RunStarts(last.buf, last.count)))

-----------------------------------------------------------------------------
\* the inode numbers and the blocks whose bitmap bit is set in image d
InodesInUse(d) ==
  { ino \in 1..NumInodes(super_block) :
      get_bit(d.inode_bitmap[GroupOf(ino)], (ino - 1) % super_block.inodes_per_group) }

BlocksInUse(d) ==
  { b \in 0..(super_block.blocks_per_group * super_block.group_count - 1) :
      get_bit(d.block_bitmap[b \div super_block.blocks_per_group + 1],
              b % super_block.blocks_per_group) }

\* the inode number alloc_inode returned in the last call (0 if none), and
\* the run alloc_contiguous_blocks returned: for a successful create it is
\* the block the new inode's extent starts at
InoReturned ==
  IF last.op = "alloc_contiguous_blocks" \/ (last.op = "alloc_inode" /\ last.res # "Ok")
    THEN 0 ELSE last.new_ino

RunReturned ==
  IF last.op = "alloc_contiguous_blocks" /\ last.res = "Ok"
    THEN last.new_ino..(last.new_ino + last.count - 1)
  ELSE IF last.op \in Creates /\ last.res = "Ok"
    THEN {get_block_loc(get_extents(last.ret.inode).extents[1])}
  ELSE {}

\* the group a block run was asked of
GroupAsked ==
  IF last.op = "alloc_contiguous_blocks" THEN last.bgd_id ELSE GroupOf(InoReturned) - 1

\* C25: no double allocation.  What a call of alloc_inode or
\* alloc_contiguous_blocks returns, called directly or by create_dir /
\* create_file, was free in the bitmap when the call began and is in use
\* when it ends, and nothing in use is ever free again: so every inode
\* number returned differs from those returned before it, and the runs of
\* blocks returned are pairwise disjoint.  The inode number returned lies in
\* the one group whose inode bitmap changed, and a run lies in the group it
\* was asked of.
C25_NoDoubleAllocation ==
  (last.op \in Allocs \cup Creates) =>
    /\ InodesInUse(last.before.disk) \subseteq InodesInUse(disk)
    /\ BlocksInUse(last.before.disk) \subseteq BlocksInUse(disk)
    /\ InoReturned # 0 =>
         /\ InoReturned \notin InodesInUse(last.before.disk)
         /\ InodesInUse(disk) = InodesInUse(last.before.disk) \cup {InoReturned}
         /\ \A g \in Groups \ {GroupOf(InoReturned)} :
              disk.inode_bitmap[g] = last.before.disk.inode_bitmap[g]
    /\ RunReturned # {} =>
         /\ RunReturned \cap BlocksInUse(last.before.disk) = {}
         /\ BlocksInUse(disk) = BlocksInUse(last.before.disk) \cup RunReturned
         /\ \A b \in RunReturned : b \div super_block.blocks_per_group = GroupAsked

\* inode 16 and a run of two blocks were given out after inode 8 and block
\* 4, the free ones of group 0, had been given out by the calls before
C25_Witness ==
  /\ last.op = "create_file" /\ last.res = "Ok"
  /\ InoReturned = 16 /\ RunReturned = {12}
  /\ 8 \in InodesInUse(last.before.disk) \ InodesInUse(InitDisk(super_block))
  /\ 4 \in BlocksInUse(last.before.disk) \ BlocksInUse(InitDisk(super_block))

-----------------------------------------------------------------------------
\* for every group of the descriptor vector v, the free counts of the
\* descriptor are the numbers of clear bits of the group's bitmaps in image d
CountsMatchBitmaps(v, d) ==
  \A g \in 1..Len(v) :
    /\ get_free_blocks_count(v[g]) = ClearBits(d.block_bitmap[g])
    /\ get_free_inodes_count(v[g]) = ClearBits(d.inode_bitmap[g])

\* C26: counter and bitmap agree.  The image is mounted with every group's
\* free_blocks_count and free_inodes_count equal to the number of clear bits
\* of its block and inode bitmap; after every alloc_inode,
\* alloc_contiguous_blocks, create_dir and create_file, successful or
\* failed, the two equalities hold for every group again, for the
\* descriptors on disk and, while the filesystem object lives, for the
\* descriptors in memory.
C26_CountersMatchBitmaps ==
  (last.op \in Allocs \cup Creates) =>
    /\ CountsMatchBitmaps(DescriptorsOnDisk, disk)
    /\ mounted => CountsMatchBitmaps(block_group_descriptors, disk)

-----------------------------------------------------------------------------
\* the sums of the free counts of the descriptor vector v
SumFreeInodes(v) ==
  LET sum[i \in 0..Len(v)] ==
        IF i = 0 THEN 0 ELSE sum[i - 1] + get_free_inodes_count(v[i])
  IN sum[Len(v)]

SumFreeBlocks(v) ==
  LET sum[i \in 0..Len(v)] ==
        IF i = 0 THEN 0 ELSE sum[i - 1] + get_free_blocks_count(v[i])
  IN sum[Len(v)]

\* the totals of the superblock are the sums over the descriptor vector v
TotalsMatch(v) ==
  /\ super_block.free_inodes_count = SumFreeInodes(v)
  /\ super_block.free_blocks_count = SumFreeBlocks(v)

\* C27: the totals of the volume follow the groups.  The image is mounted
\* with the superblock's free_inodes_count and free_blocks_count equal to
\* the sums of the descriptors' counts; after every successful create_dir
\* and create_file both equalities hold again, for the descriptors in
\* memory and for those on disk.  (The superblock is never written, so the
\* one in memory is the one on disk.)
C27_TotalsMatchGroups ==
  (last.op \in Creates /\ last.res = "Ok") =>
    /\ TotalsMatch(block_group_descriptors)
    /\ TotalsMatch(DescriptorsOnDisk)

-----------------------------------------------------------------------------
\* C28: no lost update through inode snapshots.  Handles of the root
\* directory exist side by side, each with its own copy of the inode: the
\* client's handle and the handle create_dir makes for ".." of /d when it
\* walks "d/../a".  Every successful create_dir that adds its directory to
\* the root, through whichever handle, leaves the root's links_count on disk
\* one above what it was before the call, so that n such calls leave it at
\* the initial value + n, and never below what it was.
C28_NoLostUpdate ==
  (last.op = "create_dir" /\ last.res = "Ok" /\ last.target = ROOT_INO) =>
    LinksCount(disk, ROOT_INO) = LinksCount(last.before.disk, ROOT_INO) + 1

-----------------------------------------------------------------------------
\* x <= y for two u32 given as halves
AtMost32(x, y) == x.hi < y.hi \/ (x.hi = y.hi /\ x.lo <= y.lo)

\* C29: the counter arithmetic of the allocators never underflows.  Whenever
\* alloc_inode is called with some group holding free_inodes_count > 0, a
\* group whose itable_unused is already 0 included, it does not abort and
\* itable_unused of no group ends above what it was; and
\* alloc_contiguous_blocks(k, g) leaves free_blocks_count of no group above
\* what it was, for every k.
C29_NoUnderflow ==
  /\ (last.op = "alloc_inode"
        /\ \E g \in Groups : get_free_inodes_count(last.before.bgds[g]) > 0) =>
       /\ last.res # "Panic"
       /\ \A g \in Groups :
            AtMost32(get_itable_unused(block_group_descriptors[g]),
                     get_itable_unused(last.before.bgds[g]))
  /\ (last.op = "alloc_contiguous_blocks") =>
       \A g \in Groups :
         get_free_blocks_count(block_group_descriptors[g])
           <= get_free_blocks_count(last.before.bgds[g])

-----------------------------------------------------------------------------
\* the inode numbers whose record the last call wrote
InodesWritten ==
  { last.writes[i].at : i \in {j \in DOMAIN last.writes : last.writes[j].kind = "inode"} }

\* C30: writing an inode touches only its own slot.  After a create_dir, a
\* create_file or an add_dir_entry_and_sync, on a volume of any supported
\* inode_size (128 included), the slot of every inode the call did not
\* write (that of ino + 1 for a written ino among them) holds what it held
\* before the call.
C30_InodeWriteInSlot ==
  (last.op \in Adds) =>
    \A ino \in DOMAIN disk.inode_table :
      ino \notin InodesWritten =>
        disk.inode_table[ino] = last.before.disk.inode_table[ino]


====
